---- MODULE Spec2Model ----
(***************************************************************************)
(* A model of the CWCOT detector (src/main.js): the label classifier, the  *)
(* artifact locator, the resolution orchestrator getBestAddendumAndDetect  *)
(* and the main loop that races it against the detection budget.           *)
(*                                                                         *)
(* Strings are modelled structurally.  A label is a sequence of word       *)
(* tokens; adjacent tokens are separated by one blank, except that the     *)
(* tokens "_" and "-" join their neighbours without blanks.  A URL is a    *)
(* record of the features the regular expressions of the code look at.     *)
(***************************************************************************)
EXTENDS Integers, Sequences, FiniteSets, TLC

\* ------------------------------------------------------------------ bounds
MaxTiles == 2      \* DOM nodes in the documents panel of one page
MaxMarkup == 1     \* artifact addresses embedded in the page markup
MaxSignals == 2    \* signal sources that carry a value after one activation
NumUrls == 2       \* detail URLs given to the main loop
MaxFaults == 1     \* operations that fail during one run of the main loop

\* ------------------------------------------------------------- constants
MaxAttempts == 3   \* for(let attempt=0; attempt<3; attempt++)
DefaultTries == 5  \* async function safe(fn, tries = 5, wait = 450)
DefaultWait == 450

\* ------------------------------------------------------------------ labels
Lower(t) ==
  CASE t = "Purchase" -> "purchase"
    [] t = "Agreement" -> "agreement"
    [] t = "Addendum" -> "addendum"
    [] t = "Prohibited" -> "prohibited"
    [] t = "Sales" -> "sales"
    [] t = "As" -> "as"
    [] t = "Is" -> "is"
    [] t = "To" -> "to"
    [] t = "Review" -> "review"
    [] t = "Disclosures" -> "disclosures"
    [] t = "PSA" -> "psa"
    [] t = "CWCOT" -> "cwcot"
    [] t = "Second" -> "second"
    [] t = "Chance" -> "chance"
    [] t = "Rev" -> "rev"
    [] OTHER -> t

LowerSeq(L) == [i \in 1..Len(L) |-> Lower(L[i])]

(* Two tokens that follow each other are one blank apart; the token Ws is  *)
(* one more blank or tab at that place, so a whitespace run is a run of Ws. *)
Ws == " "

\* .replace(/\s+/g,' ').trim()
RECURSIVE Squeeze(_)
Squeeze(L) ==
  IF L = <<>> THEN <<>>
  ELSE IF Head(L) = Ws THEN Squeeze(Tail(L))
       ELSE <<Head(L)>> \o Squeeze(Tail(L))

\* a label that is undefined or null, and (label||'')
NoLabel == <<"(no label)">>
OrEmpty(label) == IF label = NoLabel THEN <<>> ELSE label

IsSep(t) == t \in {"_", "-"}

\* the token sequence without the joining tokens "_" and "-"
RECURSIVE StripSeps(_)
StripSeps(L) ==
  IF L = <<>> THEN <<>>
  ELSE IF IsSep(Head(L)) THEN StripSeps(Tail(L))
       ELSE <<Head(L)>> \o StripSeps(Tail(L))

(* The positions where the words of ws, matched from position i of L with  *)
(* \s+ or \s* between them, can end: the words are consecutive tokens, or  *)
(* have a whitespace run between them.                                     *)
RECURSIVE PhraseEnds(_, _, _)
PhraseEnds(L, ws, i) ==
  IF i < 1 \/ i > Len(L) THEN {}
  ELSE IF L[i] # ws[1] THEN {}
  ELSE IF Len(ws) = 1 THEN {i}
  ELSE UNION { PhraseEnds(L, Tail(ws), j) :
                 j \in { k \in (i + 1)..Len(L) : \A m \in (i + 1)..(k - 1) : L[m] = Ws } }

PhraseAt(L, ws, i) == PhraseEnds(L, ws, i) # {}

HasPhrase(L, ws) == \E i \in 1..Len(L) : PhraseAt(L, ws, i)

\* \b before position i / after position j: "_" is a word character
BoundaryBefore(L, i) == i = 1 \/ L[i - 1] # "_"
BoundaryAfter(L, j) == j = Len(L) \/ L[j + 1] # "_"

\* /w1\s*w2\s*w3\b/ : the phrase, then a word boundary
HasPhraseB(L, ws) ==
  \E i \in 1..Len(L) : \E j \in PhraseEnds(L, ws, i) : BoundaryAfter(L, j)

\* /\bw1\s+w2\b/ : a word boundary on both sides
HasBPhraseB(L, ws) ==
  \E i \in 1..Len(L) : \E j \in PhraseEnds(L, ws, i) :
    BoundaryBefore(L, i) /\ BoundaryAfter(L, j)

\* /w1[\s_-]*w2[\s_-]*w3/ : the words, joined by blanks, "_" or "-"
HasLoosePhrase(L, ws) == HasPhrase(StripSeps(L), ws)

ProhibitedRe(L) == HasPhrase(L, <<"prohibited", "sales", "addendum">>)

isPurchaseAgreementAddendumLabel(label) ==
  LET L == Squeeze(LowerSeq(OrEmpty(label))) IN
    IF L = <<>> THEN FALSE
    ELSE IF ProhibitedRe(L) THEN FALSE
    ELSE \/ HasPhraseB(L, <<"purchase", "agreement", "addendum">>)
         \/ HasPhraseB(L, <<"addendum", "to", "purchase", "agreement">>)

\* /\bas[\s-]*is\b.*addendum/ or /as-?is\s+addendum\s+to\s+psa/
AsIsRe(L) ==
  \/ \E i \in 1..Len(L) : \E j \in (i + 1)..Len(L) :
       /\ L[i] = "as" /\ BoundaryBefore(L, i)
       /\ L[j] = "is" /\ BoundaryAfter(L, j)
       /\ \A k \in (i + 1)..(j - 1) : L[k] \in {"-", Ws}
       /\ \E m \in (j + 1)..Len(L) : L[m] = "addendum"
  \/ HasPhrase(L, <<"as", "is", "addendum", "to", "psa">>)
  \/ HasPhrase(L, <<"as", "-", "is", "addendum", "to", "psa">>)

PsaRe(L) ==
  \/ HasBPhraseB(L, <<"review", "purchase", "agreement">>)
  \/ HasBPhraseB(L, <<"freddie", "mac", "occupied", "psa">>)
  \/ HasBPhraseB(L, <<"purchase", "and", "sale", "agreement">>)
  \/ HasBPhraseB(L, <<"auction", "purchase", "agreement">>)
  \/ HasBPhraseB(L, <<"psa">>)

labelTypeAsIsFirst(label) ==
  LET L == LowerSeq(OrEmpty(label)) IN
    IF AsIsRe(L) THEN "asis"
    ELSE IF isPurchaseAgreementAddendumLabel(label) THEN "paa"
    ELSE IF ProhibitedRe(L) THEN "prohibited"
    ELSE IF HasBPhraseB(L, <<"addendum">>) THEN "generic"
    ELSE IF PsaRe(L) THEN "psa"
    ELSE "other"

labelType(label) ==
  LET L == LowerSeq(OrEmpty(label)) IN
    IF ProhibitedRe(L) THEN "prohibited"
    ELSE IF AsIsRe(L) THEN "asis"
    ELSE IF isPurchaseAgreementAddendumLabel(label) THEN "paa"
    ELSE IF HasBPhraseB(L, <<"addendum">>) THEN "generic"
    ELSE IF PsaRe(L) THEN "psa"
    ELSE "other"

\* -------------------------------------------------------------------- URLs
(* form: "none" the empty string, "abs" http(s)://..., "proto" //host/...,  *)
(* "root" /path, "rel" path, "blob" blob:...                                *)
(* imgix: the text contains imgix.net/resi/globalDocuments/                 *)
(* pdf: the text matches /\.pdf(\?|$)/                                      *)
(* paaName: the text matches /purchase.*agreement.*addendum/                *)
(* doc: the document served at the address                                  *)
Url(form, imgix, pdf, paaName, doc) ==
  [form |-> form, imgix |-> imgix, pdf |-> pdf, paaName |-> paaName, doc |-> doc]

NoUrl == Url("none", FALSE, FALSE, FALSE, "none")

\* https://adc.imgix.net/resi/globalDocuments/Purchase_Agreement_Addendum.pdf
UCwcot == Url("abs", TRUE, TRUE, TRUE, "paaC")
\* https://adc.imgix.net/resi/globalDocuments/81233.pdf
UPlain == Url("abs", TRUE, TRUE, FALSE, "paaN")
\* https://adc.imgix.net/resi/globalDocuments/Prohibited_Sales_Addendum.pdf
UProh == Url("abs", TRUE, TRUE, FALSE, "proh")
\* /docs/addendum-81233.pdf
URelPdf == Url("root", FALSE, TRUE, FALSE, "paaN")
\* /documents/purchase-agreement-addendum (a viewer route, no artifact)
URoute == Url("root", FALSE, FALSE, TRUE, "proh")
\* https://www.auction.com/details/123 (the listing page itself)
UDetail == Url("abs", FALSE, FALSE, FALSE, "none")

toAbs(href) ==
  IF href.form = "none" THEN NoUrl
  ELSE IF href.form = "abs" THEN href
  ELSE [href EXCEPT !.form = "abs"]

isPdfUrl(u) ==
  IF u.form = "none" THEN FALSE
  ELSE u.pdf \/ u.imgix

IsAbsolute(u) == u.form = "abs"

\* --------------------------------------------------------- text classifier
(* The text of the first pages of each document, as normalised word tokens *)
DocText(doc) ==
  CASE doc = "paaC" -> <<"real", "estate", "purchase", "addendum", "cwcot", "property">>
    [] doc = "paaN" -> <<"purchase", "agreement", "addendum">>
    [] doc = "proh" -> <<"prohibited", "sales", "addendum">>
    [] OTHER -> <<>>

\* the last path segment of the address, as tokens
FilenameOf(u) ==
  IF u.paaName THEN <<"purchase", "_", "agreement", "_", "addendum">>
  ELSE IF u.doc = "proh" THEN <<"prohibited", "_", "sales", "_", "addendum">>
  ELSE <<"81233">>

\* normText: soft hyphens go, dash variants become "-", whitespace runs one blank
normText(s) ==
  Squeeze([i \in 1..Len(s) |->
             CASE s[i] = "CW(shy)COT" -> "CWCOT"
               [] s[i] = "(en dash)" -> "-"
               [] OTHER -> s[i]])

\* RULES, by key and in order
RuleKeys ==
  <<"CWCOT", "CWCoT spelled out", "Title: CWCOT Property", "Second Chance",
    "Post-Foreclosure Sale">>

\* r.re.test(t) of the rule with key k
RuleMatches(k, t) ==
  CASE k = "CWCOT" -> HasBPhraseB(t, <<"cwcot">>)
    [] k = "CWCoT spelled out" ->
         \/ HasPhrase(t, <<"claims", "without", "conveyance", "of", "title">>)
         \/ HasPhrase(t, <<"claim", "without", "conveyance", "of", "title">>)
    [] k = "Title: CWCOT Property" ->
         HasPhrase(t, <<"real", "estate", "purchase", "addendum", "(", "cwcot", "property", ")">>)
    [] k = "Second Chance" ->
         \/ HasBPhraseB(t, <<"second", "chance">>)
         \/ HasBPhraseB(t, <<"second", "-", "chance">>)
    [] k = "Post-Foreclosure Sale" ->
         \/ HasPhrase(t, <<"post", "foreclosure", "sale">>)
         \/ HasPhrase(t, <<"post", "-", "foreclosure", "sale">>)
    [] OTHER -> FALSE

RuleHitsFirstOnly(t) ==
  LET m == { i \in 1..Len(RuleKeys) : RuleMatches(RuleKeys[i], t) }
  IN IF m = {} THEN <<>> ELSE <<RuleKeys[CHOOSE i \in m : \A j \in m : i <= j]>>

\* for(const r of RULES) if(r.re.test(t)) hits.push(r.k)
RuleHits(t) == SelectSeq(RuleKeys, LAMBDA k : RuleMatches(k, t))

(* Numbers are tokens of digits; "." adjoins the tokens around it. NumLen  *)
(* is the number of digits of a token (0: not a number), FirstDigits its   *)
(* first n digits.                                                         *)
NumLen(tok) ==
  CASE tok = "3" -> 1
    [] tok \in {"14", "24"} -> 2
    [] tok = "123" -> 3
    [] tok = "2024" -> 4
    [] tok = "20245" -> 5
    [] OTHER -> 0

FirstDigits(tok, n) == IF tok = "20245" /\ n = 4 THEN "2024" ELSE tok

RevAtOptionalThird(t, i) ==
  IF t[i] # "rev" THEN <<>>
  ELSE LET n == IF i + 1 <= Len(t) /\ t[i + 1] = "." THEN i + 2 ELSE i + 1
       IN IF /\ n + 2 <= Len(t)
             /\ NumLen(t[n]) \in 1..2 /\ t[n + 1] = "."
             /\ NumLen(t[n + 2]) \in 1..2
          THEN <<t[n], ".", t[n + 2]>>
          ELSE <<>>

(* revMatch[1] for a match of                                              *)
(* /rev\.?\s*([0-9]{1,2}\.[0-9]{1,2}\.[0-9]{2,4})/ that starts at token i, *)
(* <<>> when the pattern does not match there                              *)
RevAt(t, i) ==
  IF t[i] # "rev" THEN <<>>
  ELSE LET n == IF i + 1 <= Len(t) /\ t[i + 1] = "." THEN i + 2 ELSE i + 1
       IN IF /\ n + 4 <= Len(t)
             /\ NumLen(t[n]) \in 1..2 /\ t[n + 1] = "."
             /\ NumLen(t[n + 2]) \in 1..2 /\ t[n + 3] = "."
             /\ NumLen(t[n + 4]) >= 2
          THEN <<t[n], ".", t[n + 2], ".", FirstDigits(t[n + 4], 4)>>
          ELSE <<>>

\* const revMatch = t.match(...); cwcot_rev = revMatch ? revMatch[1] : ''
RevOf(t) ==
  LET m == { i \in 1..Len(t) : RevAt(t, i) # <<>> }
  IN IF m = {} THEN <<>> ELSE RevAt(t, CHOOSE i \in m : \A j \in m : i <= j)

detectCWCOTInText(rawText, filename) ==
  LET t == LowerSeq(normText(rawText))
      hits == RuleHits(t)
              \o (IF \E i \in 1..Len(filename) : Lower(filename[i]) = "cwcot"
                  THEN <<"filename:CWCOT">> ELSE <<>>)
  IN [isCWCOT |-> Len(hits) > 0, hits |-> hits, cwcot_rev |-> RevOf(t)]

\* the classification analyzeAddendumPdf returns when extraction succeeds
Detection(u) == detectCWCOTInText(DocText(u.doc), FilenameOf(u))

\* ------------------------------------------------------- the page's content
LPaa == <<"Purchase", "Agreement", "Addendum">>
LAddTo == <<"Addendum", "To", "Purchase", "Agreement">>
LProh == <<"Prohibited", "Sales", "Addendum">>
LAsIs == <<"As", "Is", "Purchase", "Agreement", "Addendum">>
LUnder == <<"purchase", "_", "agreement", "_", "addendum">>
LDisc == <<"Disclosures">>

(* A node of the documents panel: its visible text, the href of its        *)
(* control (NoUrl when it has none) and the artifact its activation shows. *)
Node(label, href, art) == [label |-> label, href |-> href, art |-> art]

NodeSet ==
  { Node(LPaa, NoUrl, UCwcot),
    Node(LPaa, NoUrl, UPlain),
    Node(LAddTo, URelPdf, URelPdf),
    Node(LProh, NoUrl, UProh),
    Node(LProh, URoute, UProh),
    Node(LAsIs, NoUrl, UPlain),
    Node(LDisc, NoUrl, UPlain) }

MarkupUrls == { UCwcot, UProh }

RECURSIVE SeqsUpTo(_, _)
SeqsUpTo(S, n) ==
  IF n = 0 THEN { <<>> }
  ELSE LET shorter == SeqsUpTo(S, n - 1)
       IN shorter \cup { Append(q, x) : q \in { r \in shorter : Len(r) = n - 1 }, x \in S }

Page(nodes, markup) == [nodes |-> nodes, markup |-> markup]

NoPage == Page(<<>>, <<>>)

PageSet ==
  { Page(n, m) : n \in SeqsUpTo(NodeSet, MaxTiles), m \in SeqsUpTo(MarkupUrls, MaxMarkup) }

\* ------------------------------------------------------------ tile discovery
\* labelCounts.get(labelKey) when node i is pushed
OrdinalOf(nodes, i) ==
  Cardinality({ j \in 1..(i - 1) : LowerSeq(nodes[j].label) = LowerSeq(nodes[i].label) })

pushTile(nodes, i) ==
  [label |-> nodes[i].label, href |-> nodes[i].href,
   ordinal |-> OrdinalOf(nodes, i), node |-> i]

RECURSIVE TilesFrom(_, _)
TilesFrom(nodes, i) ==
  IF i > Len(nodes) THEN <<>>
  ELSE IF nodes[i].label = <<>> THEN TilesFrom(nodes, i + 1)
       ELSE <<pushTile(nodes, i)>> \o TilesFrom(nodes, i + 1)

\* ok = FALSE: page.evaluate failed and .catch(() => []) answered
listDocumentTiles(pg, ok) == IF ok THEN TilesFrom(pg.nodes, 1) ELSE <<>>

TileLabels(tiles) == [i \in 1..Len(tiles) |-> tiles[i].label]

\* --------------------------------------------------------- signal sources
(* What the signal sources hold after the control of a document with       *)
(* artifact a was activated.  Junk(a) is an address that serves the        *)
(* document but fails the artifact check (a download route answered with   *)
(* content-type application/pdf, a viewer page opened in a popup).         *)
Junk(a) == Url("abs", FALSE, FALSE, FALSE, a.doc)
BlobOf(a) == Url("blob", FALSE, FALSE, FALSE, a.doc)

NoSignals ==
  [now |-> UDetail, popup |-> NoUrl, hits |-> <<>>, cdp |-> <<>>,
   perf |-> <<>>, open |-> NoUrl, anchor |-> NoUrl, blob |-> <<>>]

SignalCount(s) ==
  (IF s.now # UDetail THEN 1 ELSE 0) + (IF s.popup # NoUrl THEN 1 ELSE 0)
  + (IF s.hits # <<>> THEN 1 ELSE 0) + (IF s.cdp # <<>> THEN 1 ELSE 0)
  + (IF s.perf # <<>> THEN 1 ELSE 0) + (IF s.open # NoUrl THEN 1 ELSE 0)
  + (IF s.anchor # NoUrl THEN 1 ELSE 0) + (IF s.blob # <<>> THEN 1 ELSE 0)

HitLists(a) == { <<>>, <<toAbs(a)>>, <<Junk(a)>>, <<Junk(a), toAbs(a)>> }

SignalSet(a) ==
  IF a = NoUrl THEN { NoSignals }
  ELSE { s \in [now : {UDetail, toAbs(a)},
                popup : {NoUrl, toAbs(a), Junk(a)},
                hits : HitLists(a),
                cdp : HitLists(a),
                perf : {<<>>, <<toAbs(a)>>},
                open : {NoUrl, a, Junk(a)},
                anchor : {NoUrl, toAbs(a), Junk(a)},
                blob : {<<>>, <<BlobOf(a)>>}] : SignalCount(s) <= MaxSignals }

First(q) == IF q = <<>> THEN NoUrl ELSE q[1]

\* es.find(e => /imgix\.net\/resi\/globalDocuments\/.+\.pdf/i.test(e.name))
PerfFind(es) ==
  LET m == { i \in 1..Len(es) : es[i].imgix /\ es[i].pdf }
  IN IF m = {} THEN NoUrl ELSE es[CHOOSE i \in m : \A j \in m : i <= j]

\* --------------------------------------------------------- artifact locator
clickTileAndSniffPdf(tile, sig) ==
  IF tile.href # NoUrl /\ isPdfUrl(tile.href) THEN toAbs(tile.href)
  ELSE IF isPdfUrl(sig.now) THEN sig.now
  ELSE IF isPdfUrl(sig.popup) THEN sig.popup
  ELSE IF First(sig.hits) # NoUrl /\ isPdfUrl(First(sig.hits)) THEN First(sig.hits)
  ELSE IF First(sig.cdp) # NoUrl /\ isPdfUrl(First(sig.cdp)) THEN First(sig.cdp)
  ELSE IF isPdfUrl(PerfFind(sig.perf)) THEN PerfFind(sig.perf)
  ELSE IF isPdfUrl(sig.open) THEN toAbs(sig.open)
  ELSE IF isPdfUrl(sig.anchor) THEN toAbs(sig.anchor)
  ELSE IF First(sig.blob) # NoUrl /\ isPdfUrl(First(sig.blob)) THEN First(sig.blob)
  ELSE NoUrl

\* ------------------------------------------------------- fallback scanning
WantRe(label) ==
  LET L == LowerSeq(label) IN
    \/ HasPhrase(L, <<"purchase", "agreement", "addendum">>)
    \/ HasPhrase(L, <<"addendum", "to", "purchase", "agreement">>)

BadRe(label) == ProhibitedRe(LowerSeq(label))

FirstIndex(S) == CHOOSE i \in S : \A j \in S : i <= j

\* rx = /https?:\/\/...imgix\.net\/resi\/globalDocuments\/...\.pdf/ig over the markup
HydrationMatches(markup) ==
  SelectSeq(markup, LAMBDA u : u.form = "abs" /\ u.imgix /\ u.pdf)

\* html = '' when page.content() failed; otherwise [...urls] of the matches
parseHydrationLinksFromHTML(pg, ok) ==
  IF ok THEN HydrationMatches(pg.markup) ELSE <<>>

\* hiddenLinks.find(u => /purchase.*agreement.*addendum/i.test(u) || ...)
paaHiddenOf(hiddenLinks) ==
  LET m == { i \in 1..Len(hiddenLinks) : hiddenLinks[i].paaName }
  IN IF m = {} THEN NoUrl ELSE hiddenLinks[FirstIndex(m)]

\* the first anchor of the panel with a wanted, not prohibited text and a .pdf href
DirectScan(nodes) ==
  LET m == { i \in 1..Len(nodes) :
               /\ nodes[i].href # NoUrl
               /\ WantRe(nodes[i].label) /\ ~BadRe(nodes[i].label)
               /\ nodes[i].href.pdf }
  IN IF m = {} THEN NoUrl ELSE nodes[FirstIndex(m)].href

\* the artifact of the control the single-shot attempt activates
LegacyTarget(nodes) ==
  LET m == { i \in 1..Len(nodes) : WantRe(nodes[i].label) /\ ~BadRe(nodes[i].label) }
  IN IF m = {} THEN NoUrl ELSE nodes[FirstIndex(m)].art

\* the part of getAddendumUrl after the direct scan returned nothing
InteractiveScan(pg, htmlOk, sig) ==
  IF sig.now.pdf THEN sig.now
  ELSE IF sig.popup # NoUrl THEN sig.popup
  ELSE IF First(sig.hits) # NoUrl THEN toAbs(First(sig.hits))
  ELSE IF PerfFind(sig.perf) # NoUrl THEN toAbs(PerfFind(sig.perf))
  ELSE IF htmlOk /\ HydrationMatches(pg.markup) # <<>> THEN HydrationMatches(pg.markup)[1]
  ELSE IF sig.open # NoUrl THEN toAbs(sig.open)
  ELSE IF sig.anchor # NoUrl THEN toAbs(sig.anchor)
  ELSE IF First(sig.blob) # NoUrl THEN First(sig.blob)
  ELSE NoUrl

getAddendumUrl(pg, directOk, htmlOk, sig) ==
  LET direct == IF directOk THEN DirectScan(pg.nodes) ELSE NoUrl
  IN IF direct # NoUrl THEN toAbs(direct)
     ELSE InteractiveScan(pg, htmlOk, sig)

\* ------------------------------------------------------------------- state
VARIABLES
  page,       \* page[p]: the content of the page opened for detail URL p
  closed,     \* the pages safeClosePage has closed
  task,       \* task[p]: the getBestAddendumAndDetect call made for URL p
  pdfReader,  \* __pdfReader: "none" or "open"
  mainpc,     \* where the main loop stands
  cur,        \* the index of the detail URL the main loop is at
  out,        \* the rows pushed so far
  faults      \* how many more operations the environment may let fail

vars == <<page, closed, task, pdfReader, mainpc, cur, out, faults>>

\* an operation on page p may fail: the page is closed, or the environment allows it
MayFail(p) == p \in closed \/ faults > 0
Failed(p) == faults' = IF p \in closed THEN faults ELSE faults - 1

Pages == 1..NumUrls

(* error texts, by the class the code's regular expressions put them in:   *)
(* "ctx"  detached frame / Execution context was destroyed / Cannot find   *)
(*        context (ERR_RE and the orchestrator's catch)                    *)
(* "conn" Target closed / Navigation failed / Connection closed (ERR_RE)   *)
(* "pageclosed" contains 'Page is closed';  "other" anything else          *)
ErrKinds == {"ctx", "conn", "pageclosed", "other"}

\* /detached frame|Execution context was destroyed|Cannot find context/i
IsContextLoss(e) == e = "ctx"

NoOutcome ==
  [selection_reason |-> "", label |-> <<>>, url |-> NoUrl, isCWCOT |-> FALSE,
   cwcot_hits |-> <<>>, tiles_seen |-> 0]

Outcome(reason, label, url, det, tiles) ==
  [selection_reason |-> reason, label |-> label, url |-> url,
   isCWCOT |-> det.isCWCOT, cwcot_hits |-> det.hits, tiles_seen |-> Len(tiles)]

NoDetection == [isCWCOT |-> FALSE, hits |-> <<>>, cwcot_rev |-> <<>>]

IdleTask ==
  [pc |-> "idle", attempt |-> 0, tiles |-> <<>>, paaTiles |-> <<>>, idx |-> 1,
   results |-> <<>>, seen |-> {}, pending |-> NoUrl, via |-> "none", stage |-> 0,
   ret |-> NoOutcome, err |-> "none", watch |-> FALSE, trace |-> <<>>,
   audit |-> FALSE, swallowed |-> {}]

Settled(s) == s.pc \in {"returned", "threw"}
Running(s) == s.pc \notin {"idle", "returned", "threw"}

(* The events of the current attempt of a watched call, in order (a        *)
(* history).  op: "locate" a candidate was located (url: what it resolved  *)
(* to), "locateFailed" locating threw, "classify" an address was           *)
(* classified, "classifyFailed" its extraction threw, "hidden", "direct",  *)
(* "interactive" a fallback stage ran (url: what it found).  idx: the      *)
(* candidate's place in paaTiles, 0 outside the candidate loop.            *)
Event(op, idx, url) == [op |-> op, idx |-> idx, url |-> url]
Logged(s, op, idx, url) ==
  IF s.watch THEN [s EXCEPT !.trace = Append(@, Event(op, idx, url))] ELSE s

(* The errors of the current attempt of an audited call that a .catch(...) *)
(* answered for (a history): <<op, e>>, op the operation that rejected     *)
(* ("discover" listDocumentTiles, "activate" the click of the locator,     *)
(* "hidden" parseHydrationLinksFromHTML), e its error, "none" for success. *)
Swallowed(s, op, e) ==
  IF s.audit /\ e # "none" THEN [s EXCEPT !.swallowed = @ \cup {<<op, e>>}] ELSE s

\* what an operation on page p answers: success, or one of the errors
Answers(p) == IF p \in closed THEN ErrKinds \ {"ctx"} ELSE ErrKinds \cup {"none"}

\* ------------------------------------------------------------ orchestrator
isPAA(t) ==
  \/ isPurchaseAgreementAddendumLabel(t.label)
  \/ HasLoosePhrase(LowerSeq(t.label), <<"purchase", "agreement", "addendum">>)
  \/ HasLoosePhrase(LowerSeq(t.label), <<"addendum", "to", "purchase", "agreement">>)
  \/ t.href.paaName

\* a variant that runs the legacy scan before the hidden-link scan
LegacyFirstChain == <<"legacy", "hydration">>

\* the stages after the tile loop found nothing, in the order of the code
FallbackChain == <<"hydration", "legacy">>

StartAttempt(attempt, watch) ==
  [IdleTask EXCEPT !.pc = "discover", !.attempt = attempt, !.watch = watch]

\* a settled call keeps its result or its error; its locals are gone
Settle(s, pc, outcome, e) ==
  [IdleTask EXCEPT !.pc = pc, !.ret = outcome, !.err = e, !.attempt = s.attempt,
                   !.watch = s.watch, !.trace = s.trace, !.audit = s.audit,
                   !.swallowed = s.swallowed]

Return(s, outcome) == Settle(s, "returned", outcome, "none")

Throw(s, e) == Settle(s, "threw", NoOutcome, e)

\* a variant that reloads and starts again after any error but the last attempt's
CatchRetriesAll(s, e) ==
  IF s.attempt = MaxAttempts - 1 THEN Throw(s, e)
  ELSE [StartAttempt(s.attempt + 1, s.watch) EXCEPT !.audit = s.audit, !.err = e]

\* catch(e){ if(!/.../.test(String(e)) || attempt===2) throw e; reload }
\* (err keeps the error the call caught last)
Catch(s, e) ==
  IF ~IsContextLoss(e) \/ s.attempt = MaxAttempts - 1 THEN Throw(s, e)
  ELSE [StartAttempt(s.attempt + 1, s.watch) EXCEPT !.audit = s.audit, !.err = e]

\* a variant that takes the first resolved candidate whatever it classified as
PickFirstResolved(results) ==
  [reason |-> IF results[1].isCWCOT THEN "paa_cwcot_hit" ELSE "paa_no_cwcot",
   r |-> results[1]]

\* a variant that falls back on the last resolved candidate
PickLastResolved(results) ==
  LET m == { i \in 1..Len(results) : results[i].isCWCOT }
  IN IF m # {} THEN [reason |-> "paa_cwcot_hit", r |-> results[FirstIndex(m)]]
     ELSE [reason |-> "paa_no_cwcot", r |-> results[Len(results)]]

\* results.find(r => r.isCWCOT), else results[0]
PickResult(results) ==
  LET m == { i \in 1..Len(results) : results[i].isCWCOT }
  IN IF m # {} THEN [reason |-> "paa_cwcot_hit", r |-> results[FirstIndex(m)]]
     ELSE [reason |-> "paa_no_cwcot", r |-> results[1]]

NotFound(s) == Outcome("paa_not_found", <<>>, NoUrl, NoDetection, s.tiles)

EnterFallback(s, k) ==
  IF k > Len(FallbackChain) THEN Return(s, NotFound(s))
  ELSE [s EXCEPT !.pc = FallbackChain[k], !.stage = k]

\* the end of the candidate loop: if(results.length){...}
AfterLoop(s) ==
  IF s.results # <<>>
  THEN LET pick == PickResult(s.results)
       IN Return(s, Outcome(pick.reason, pick.r.label, pick.r.url, pick.r.det, s.tiles))
  ELSE EnterFallback(s, 1)

\* a variant that leaves the loop at the first candidate classified as a match
NextCandidateShortCircuit(s) ==
  IF s.results # <<>> /\ s.results[Len(s.results)].isCWCOT
  THEN AfterLoop([s EXCEPT !.idx = s.idx + 1])
  ELSE IF s.idx + 1 <= Len(s.paaTiles) THEN [s EXCEPT !.pc = "locate", !.idx = s.idx + 1]
  ELSE AfterLoop([s EXCEPT !.idx = s.idx + 1])

\* for(const t of paaTiles): the next candidate, or the end of the loop
NextCandidate(s) ==
  IF s.idx + 1 <= Len(s.paaTiles) THEN [s EXCEPT !.pc = "locate", !.idx = s.idx + 1]
  ELSE AfterLoop([s EXCEPT !.idx = s.idx + 1])

\* ensureDocumentsOpen; listDocumentTiles; paaTiles = tiles.filter(isPAA)
Discover(p) ==
  /\ task[p].pc = "discover"
  /\ mainpc # "exited"
  /\ \E e \in Answers(p) :
       LET tiles == listDocumentTiles(page[p], e = "none")
           s1 == [Swallowed(task[p], "discover", e) EXCEPT
                    !.tiles = tiles, !.paaTiles = SelectSeq(tiles, isPAA), !.idx = 1]
       IN task' = [task EXCEPT ![p] =
                     IF s1.paaTiles = <<>> THEN AfterLoop(s1)
                     ELSE [s1 EXCEPT !.pc = "locate"]]
  /\ UNCHANGED <<page, closed, pdfReader, mainpc, cur, out, faults>>

\* pdfUrl = await clickTileAndSniffPdf(page, t); if(!pdfUrl || seen.has(pdfUrl)) continue
Located(s, pdfUrl) ==
  LET s1 == Logged(s, "locate", s.idx, pdfUrl)
  IN IF pdfUrl = NoUrl \/ pdfUrl \in s.seen THEN NextCandidate(s1)
     ELSE [s1 EXCEPT !.seen = @ \cup {pdfUrl}, !.pending = pdfUrl,
                     !.via = "tile", !.pc = "classify"]

\* a variant that arms the listeners and activates the control of every tile
LocateEffectsAlways(tile) ==
  <<"removeListeners", "resetHits", "listen", "cdpSession", "popupWait", "click", "sleep">>

(* What one call of clickTileAndSniffPdf does to the page before it reads  *)
(* the signal sources, in order: removeAllListeners('response'),           *)
(* __pdf_hits = [], page.on('response'), newCDPSession, waitForEvent       *)
(* ('popup'), the click, sleep(900).                                       *)
LocateEffects(tile) ==
  IF tile.href # NoUrl /\ isPdfUrl(tile.href) THEN <<>>
  ELSE <<"removeListeners", "resetHits", "listen", "cdpSession", "popupWait", "click", "sleep">>

Effects(s, effs, idx) ==
  IF s.watch
  THEN [s EXCEPT !.trace = @ \o [k \in 1..Len(effs) |-> Event(effs[k], idx, NoUrl)]]
  ELSE s

Locate(p) ==
  /\ task[p].pc = "locate"
  /\ mainpc # "exited"
  /\ LET s == task[p]
         t == s.paaTiles[s.idx]
         art == IF p \in closed THEN NoUrl ELSE page[p].nodes[t.node].art
         did == Effects(s, LocateEffects(t), s.idx)
         unclicked == Effects(s, SelectSeq(LocateEffects(t), LAMBDA f : f # "click"), s.idx)
     IN \/ /\ \E pdfUrl \in { clickTileAndSniffPdf(t, sig) : sig \in SignalSet(art) } :
                task' = [task EXCEPT ![p] = Located(did, pdfUrl)]
           /\ UNCHANGED faults
        \/ \* the click rejected and the .catch(...) handler found nothing to click
           /\ LocateEffects(t) # <<>>
           /\ \E e \in ErrKinds :
                task' = [task EXCEPT ![p] =
                           Located(Swallowed(unclicked, "activate", e), NoUrl)]
           /\ UNCHANGED faults
        \/ /\ MayFail(p)
           /\ ~(t.href # NoUrl /\ isPdfUrl(t.href))
           /\ \E e \in ErrKinds :
                task' = [task EXCEPT ![p] = Catch(Logged(s, "locateFailed", s.idx, NoUrl), e)]
           /\ Failed(p)
  /\ UNCHANGED <<page, closed, pdfReader, mainpc, cur, out>>

\* what follows a successful analyzeAddendumPdf at each of its three call sites
Classified(s, det) ==
  IF s.via = "tile"
  THEN NextCandidate([s EXCEPT !.results =
         Append(@, [label |-> s.paaTiles[s.idx].label, url |-> s.pending, det |-> det,
                    isCWCOT |-> det.isCWCOT])])
  ELSE IF s.via = "hidden"
  THEN Return(s, Outcome("hydration_paa", <<"(hidden PAA)">>, s.pending, det, s.tiles))
  ELSE Return(s, Outcome("legacy_paa", <<"(legacy PAA)">>, s.pending, det, s.tiles))

\* catch(e){ if(reader.isClosed() || /Target closed|Connection closed/.test(e)) __pdfReader=null; throw e }
ReaderAfterError(e) == IF e \in {"conn", "pageclosed"} THEN "none" ELSE "open"

\* det = await analyzeAddendumPdf(page.context(), baseUrl, url)
Classify(p) ==
  /\ task[p].pc = "classify"
  /\ mainpc # "exited"
  /\ LET s == task[p]
         i == IF s.via = "tile" THEN s.idx ELSE 0
     IN \/ /\ s.pending.doc # "none"
           /\ task' = [task EXCEPT ![p] =
                         Classified(Logged(s, "classify", i, s.pending), Detection(s.pending))]
           /\ pdfReader' = "open"
           /\ UNCHANGED faults
        \/ /\ MayFail(p) \/ s.pending.doc = "none"
           /\ \E e \in ErrKinds :
                /\ task' = [task EXCEPT ![p] =
                              Catch(Logged(s, "classifyFailed", i, s.pending), e)]
                /\ pdfReader' = ReaderAfterError(e)
           /\ faults' = IF p \in closed \/ faults = 0 THEN faults ELSE faults - 1
  /\ UNCHANGED <<page, closed, mainpc, cur, out>>

\* hiddenLinks = await parseHydrationLinksFromHTML(page); paaHidden = hiddenLinks.find(...)
Hydration(p) ==
  /\ task[p].pc = "hydration"
  /\ mainpc # "exited"
  /\ \E e \in Answers(p) :
       LET paaHidden == paaHiddenOf(parseHydrationLinksFromHTML(page[p], e = "none"))
           s == Logged(Swallowed(task[p], "hidden", e), "hidden", 0, paaHidden)
       IN task' = [task EXCEPT ![p] =
                     IF paaHidden # NoUrl
                     THEN [s EXCEPT !.pending = paaHidden, !.via = "hidden", !.pc = "classify"]
                     ELSE EnterFallback(s, s.stage + 1)]
  /\ UNCHANGED <<page, closed, pdfReader, mainpc, cur, out, faults>>

\* legacy = await getAddendumUrl(page, baseUrl)
LegacyDone(s, pg, directOk, htmlOk, sig) ==
  LET direct == IF directOk THEN DirectScan(pg.nodes) ELSE NoUrl
      legacy == getAddendumUrl(pg, directOk, htmlOk, sig)
      s1 == Logged(s, "direct", 0, direct)
      s2 == IF direct # NoUrl THEN s1 ELSE Logged(s1, "interactive", 0, legacy)
  IN IF legacy # NoUrl
     THEN [s2 EXCEPT !.pending = legacy, !.via = "legacy", !.pc = "classify"]
     ELSE EnterFallback(s2, s2.stage + 1)

Legacy(p) ==
  /\ task[p].pc = "legacy"
  /\ mainpc # "exited"
  /\ LET s == task[p]
     IN \/ /\ p \notin closed
           /\ \E next \in { LegacyDone(s, page[p], directOk, htmlOk, sig) :
                               directOk \in BOOLEAN, htmlOk \in BOOLEAN,
                               sig \in SignalSet(LegacyTarget(page[p].nodes)) } :
                task' = [task EXCEPT ![p] = next]
           /\ UNCHANGED faults
        \/ /\ MayFail(p)
           /\ \E e \in (IF p \in closed THEN ErrKinds \ {"ctx"} ELSE ErrKinds) :
                task' = [task EXCEPT ![p] = Catch(s, e)]
           /\ Failed(p)
  /\ UNCHANGED <<page, closed, pdfReader, mainpc, cur, out>>

OrchStep(p) == Discover(p) \/ Locate(p) \/ Classify(p) \/ Hydration(p) \/ Legacy(p)

\* --------------------------------------------------------------- main loop
VARIABLE path   \* history: path[i] tells how row i of out came about

VARIABLE sf     \* one call of safe(fn, tries, wait)

VARIABLE dt     \* the in-page pass of listDocumentTiles, node by node

VARIABLE cl     \* one call of a classifier: labelType or detectCWCOTInText

VARIABLE ing    \* the property store and the ingest run working on it

VARIABLE rd     \* the shared reader __pdfReader and the extractions using it

VARIABLE geo     \* the geocode cache and the calls of resolveCoordinates

VARIABLE lc     \* one call of clickTileAndSniffPdf, step by step

more == <<rd, geo>>

rest == <<dt, cl, ing, lc, more>>

allvars == <<page, closed, task, pdfReader, mainpc, cur, out, faults, path, sf, rest>>

\* ------------------------------------------------- one call of a classifier
MaxLabel == 5

\* the labels labelType is called with: any text, or none
LabelInputs ==
  LET tokens == { "Prohibited", "Sales", "Addendum", "Purchase", "Agreement", "As", "Is", Ws }
      phrases == { LPaa, LAddTo, LProh, LAsIs, LUnder, LDisc, <<"PSA">>,
                   <<"prohibited", Ws, Ws, "Sales", Ws, "addendum">> }
  IN SeqsUpTo(tokens, MaxLabel)
       \cup { a \o b : a \in phrases, b \in phrases }
       \cup { NoLabel }

MaxChunks == 3

(* The calls of detectCWCOTInText: a text of up to MaxChunks pieces and a  *)
(* filename hint, possibly empty.                                          *)
TextInputs ==
  LET chunks ==
        { <<"CWCOT">>, <<"x", "_", "cwcot">>, <<"CW(shy)COT">>,
          <<"claims", "without", "conveyance", "of", "title">>,
          <<"real", "estate", "purchase", "addendum", "(", "cwcot", "property", ")">>,
          <<"Second", "Chance">>, <<"second", "-", "chance">>,
          <<"post", "(en dash)", "foreclosure", Ws, "sale">>,
          <<"Rev", ".", "3", ".", "14", ".", "24">>,
          <<"Rev", ".", "3", ".", "14">>,
          <<"rev", "14", ".", "3", ".", "20245">>,
          <<"Rev", ".", "123", ".", "14", ".", "24">>,
          <<"rev", ".", "3", ".", "14", ".", "3">>,
          <<"3", ".", "14", ".", "2024">> }
      RECURSIVE Flatten(_)
      Flatten(c) == IF c = <<>> THEN <<>> ELSE Head(c) \o Flatten(Tail(c))
  IN { [text |-> Flatten(c), filename |-> f] :
         c \in SeqsUpTo(chunks, MaxChunks),
         f \in { <<>>, <<"81233">>, <<"Addendum", "_", "CWCOT">> } }

IdleCall ==
  [pc |-> "idle", fn |-> "none", label |-> <<>>, type |-> "none",
   text |-> <<>>, filename |-> <<>>, det |-> NoDetection]

\* detectCWCOTInText(rawText, filename) returns
DetectText ==
  /\ cl.pc = "call"
  /\ cl.fn = "detect"
  /\ cl' = [cl EXCEPT !.pc = "done", !.det = detectCWCOTInText(cl.text, cl.filename)]
  /\ UNCHANGED <<vars, path, sf, dt, ing, lc, more>>

\* labelType(label) returns
ClassifyLabel ==
  /\ cl.pc = "call"
  /\ cl.fn = "labelType"
  /\ cl' = [cl EXCEPT !.pc = "done", !.type = labelType(cl.label)]
  /\ UNCHANGED <<vars, path, sf, dt, ing, lc, more>>

\* ------------------------------------------------------------- ingest run
MaxRecords == 3
MaxRuns == 2

(* The rows the scraper writes (src/main.js:931 and 935), by content: 1, a *)
(* resolution that found a CWCOT addendum; 2, the default of a detection   *)
(* timeout; 3, the row of the catch block.                                 *)
Content(val) ==
  CASE val = 1 -> [isCWCOT |-> TRUE, addendum_url |-> "paa.pdf", error |-> "",
                   selection_reason |-> "paa_cwcot_hit"]
    [] val = 2 -> [isCWCOT |-> FALSE, addendum_url |-> "", error |-> "",
                   selection_reason |-> "timeout_no_paa"]
    [] OTHER -> [isCWCOT |-> FALSE, addendum_url |-> "", error |-> "Error",
                 selection_reason |-> ""]

\* the items of a report: a url as written and val, the content of the row
Items ==
  { [url |-> "u1", val |-> 1], [url |-> " u1 ", val |-> 2], [url |-> "u1", val |-> 2],
    [url |-> "u1", val |-> 3], [url |-> "u2", val |-> 1], [url |-> " ", val |-> 1],
    [url |-> "", val |-> 1] }

\* value ? 1 : 0
toBooleanFlag(value) == IF value THEN 1 ELSE 0

\* value == null ? '' : String(value).trim()
sanitizeString(value) ==
  CASE value = " u1 " -> "u1"
    [] value = " " -> ""
    [] OTHER -> value

(* val stands for hash and the other tracked fields, which differ as the   *)
(* item does; is_cwcot and addendum_url are read from the item as it is.   *)
normalizeItem(item) ==
  [url |-> sanitizeString(item.url), val |-> item.val,
   is_cwcot |-> toBooleanFlag(Content(item.val).isCWCOT),
   addendum_url |-> sanitizeString(Content(item.val).addendum_url)]

NoCounts ==
  [created |-> 0, updated |-> 0, unchanged |-> 0, changed |-> 0, reactivated |-> 0,
   deactivated |-> 0]

(* props, changes and events are the tables; times are run numbers and 0   *)
(* is null. writes counts the inserts and updates run on the properties    *)
(* table.                                                                  *)
IdleIngest ==
  [pc |-> "idle", run |-> 0, records |-> <<>>, i |-> 1, seenUrls |-> {},
   counts |-> NoCounts, props |-> <<>>, changes |-> <<>>, events |-> <<>>,
   writes |-> 0, before |-> <<>>]

Tables(g) == [props |-> g.props, changes |-> g.changes, events |-> g.events]

SeenUrlNever(seenUrls, url) == FALSE

\* seenUrls.has(url)
SeenUrl(seenUrls, url) == url \in seenUrls

\* stmtSelectByUrl.get(url): the row number, 0 when there is none
SelectByUrl(props, url) ==
  IF \E k \in 1..Len(props) : props[k].url = url
  THEN CHOOSE k \in 1..Len(props) : props[k].url = url
  ELSE 0

\* diffFields(existing, payload, trackedFields)
diffFields(existing, payload) ==
  LET fields == <<"val", "is_cwcot", "addendum_url">>
      differs == SelectSeq(fields, LAMBDA f : existing[f] # payload[f])
  IN [c \in 1..Len(differs) |->
        [field |-> differs[c], old_value |-> existing[differs[c]],
         new_value |-> payload[differs[c]]]]

\* a variant that moves last_changed at every update
LastChangedAlways(existing, changes, ts) == ts

\* last_changed: changes.length ? ts : existing.last_changed
LastChangedAfter(existing, changes, ts) ==
  IF changes # <<>> THEN ts ELSE existing.last_changed

\* a variant of the deactivation that finds nothing missing
MissingNone(props, seenUrls) == {}

\* stmtSelectActive.all() filtered by !seenUrls.has(row.url)
Missing(props, seenUrls) ==
  { k \in 1..Len(props) : props[k].status = "active" /\ props[k].url \notin seenUrls }

(* The row a DELETE leaves behind in the sequence: ids are not given out   *)
(* again, and no statement selects this row.                               *)
DeletedRow ==
  [url |-> "", val |-> 0, is_cwcot |-> 0, addendum_url |-> "", first_seen |-> 0,
   last_seen |-> 0, last_changed |-> 0, status |-> "deleted", inactive_at |-> 0,
   reactivated_at |-> 0, last_run_id |-> 0]

\* the body of the loop of runUpsert for one record
upsertOne(g, payload) ==
  LET url == payload.url
      ts == g.run
  IN IF url = "" THEN g
     ELSE IF SeenUrl(g.seenUrls, url) THEN g
     ELSE
       LET k == SelectByUrl(g.props, url)
           seen == [g EXCEPT !.seenUrls = @ \cup {url}, !.writes = @ + 1]
       IN IF k = 0
          THEN [seen EXCEPT
                  !.props = Append(@, [url |-> url, val |-> payload.val,
                                       is_cwcot |-> payload.is_cwcot,
                                       addendum_url |-> payload.addendum_url,
                                       first_seen |-> ts, last_seen |-> ts,
                                       last_changed |-> ts, status |-> "active",
                                       inactive_at |-> 0, reactivated_at |-> 0,
                                       last_run_id |-> ts]),
                  !.events = Append(@, [run_id |-> ts, property_id |-> Len(g.props) + 1,
                                        event_type |-> "created"]),
                  !.counts.created = @ + 1]
          ELSE
            LET existing == g.props[k]
                wasInactive == existing.status # "active"
                changes == diffFields(existing, payload)
                eventType ==
                  IF changes # <<>>
                  THEN (IF wasInactive THEN "reactivated_changed" ELSE "changed")
                  ELSE (IF wasInactive THEN "reactivated" ELSE "seen")
            IN [seen EXCEPT
                  !.props[k] = [existing EXCEPT
                                  !.val = payload.val,
                                  !.is_cwcot = payload.is_cwcot,
                                  !.addendum_url = payload.addendum_url,
                                  !.last_seen = ts,
                                  !.last_changed = LastChangedAfter(existing, changes, ts),
                                  !.status = "active",
                                  !.inactive_at = 0,
                                  !.reactivated_at = IF wasInactive THEN ts ELSE @,
                                  !.last_run_id = ts],
                  !.changes = @ \o [c \in 1..Len(changes) |->
                                      [property_id |-> k, field |-> changes[c].field,
                                       old_value |-> changes[c].old_value,
                                       new_value |-> changes[c].new_value,
                                       changed_at |-> ts]],
                  !.events = Append(@, [run_id |-> ts, property_id |-> k,
                                        event_type |-> eventType]),
                  !.counts.reactivated = IF wasInactive THEN @ + 1 ELSE @,
                  !.counts.changed = IF changes # <<>> THEN @ + 1 ELSE @,
                  !.counts.unchanged = IF changes = <<>> /\ ~wasInactive THEN @ + 1 ELSE @,
                  !.counts.updated = @ + 1]

\* main: the run row is inserted and the items of the report are normalized
StartRun ==
  /\ ing.pc \in {"idle", "done", "failed"}
  /\ ing.run < MaxRuns
  /\ \E items \in SeqsUpTo(Items, MaxRecords) :
       ing' = [ing EXCEPT
                 !.pc = "upsert", !.run = @ + 1,
                 !.records = [n \in 1..Len(items) |-> normalizeItem(items[n])],
                 !.i = 1, !.seenUrls = {}, !.counts = NoCounts,
                 !.before = Tables(ing)]
  /\ UNCHANGED <<vars, path, sf, dt, cl, lc, more>>

\* runUpsert: one record of the loop
UpsertRecord ==
  /\ ing.pc = "upsert"
  /\ ing.i <= Len(ing.records)
  /\ ing' = [upsertOne(ing, ing.records[ing.i]) EXCEPT !.i = ing.i + 1]
  /\ UNCHANGED <<vars, path, sf, dt, cl, lc, more>>

\* deactivate: every active row whose url was not seen; then the run is finalized
Deactivate ==
  /\ ing.pc = "upsert"
  /\ ing.i > Len(ing.records)
  /\ LET gone == Missing(ing.props, ing.seenUrls)
         RECURSIVE EventsFor(_)
         EventsFor(ks) ==
           IF ks = {} THEN <<>>
           ELSE LET k == CHOOSE x \in ks : \A y \in ks : x <= y
                IN <<[run_id |-> ing.run, property_id |-> k, event_type |-> "deactivated"]>>
                     \o EventsFor(ks \ {k})
     IN ing' = [ing EXCEPT
                  !.pc = "done",
                  !.props = [k \in 1..Len(ing.props) |->
                               IF k \in gone
                               THEN [ing.props[k] EXCEPT !.status = "inactive",
                                                          !.inactive_at = ing.run,
                                                          !.last_run_id = ing.run]
                               ELSE ing.props[k]],
                  !.events = @ \o EventsFor(gone),
                  !.writes = @ + Cardinality(gone),
                  !.counts.deactivated = Cardinality(gone),
                  !.before = <<>>]
  /\ UNCHANGED <<vars, path, sf, dt, cl, lc, more>>

(* A statement throws: the transaction it is in is rolled back, the run is *)
(* marked failed. runUpsert is one transaction, deactivate another.        *)
RunFails ==
  /\ ing.pc = "upsert"
  /\ ing' = IF ing.i <= Len(ing.records)
            THEN [ing EXCEPT !.pc = "failed", !.props = ing.before.props,
                             !.changes = ing.before.changes,
                             !.events = ing.before.events, !.before = <<>>]
            ELSE [ing EXCEPT !.pc = "failed", !.before = <<>>]
  /\ UNCHANGED <<vars, path, sf, dt, cl, lc, more>>

(* prune-properties.js: DELETE FROM properties WHERE status = 'inactive'   *)
(* AND inactive_at IS NOT NULL AND inactive_at < cutoff, run by its own    *)
(* process between the transactions of the ingest; cutoff lies days >= 1   *)
(* before the present, wherever that is.                                   *)
Prune ==
  /\ ing.pc \in {"done", "failed"} \/ (ing.pc = "upsert" /\ ing.i > Len(ing.records))
  /\ \E cutoff \in 1..(ing.run + 1) :
       ing' = [ing EXCEPT
                 !.props = [k \in 1..Len(ing.props) |->
                              IF /\ ing.props[k].status = "inactive"
                                 /\ ing.props[k].inactive_at # 0
                                 /\ ing.props[k].inactive_at < cutoff
                              THEN DeletedRow ELSE ing.props[k]]]
  /\ ing.props # <<>>
  /\ UNCHANGED <<vars, path, sf, dt, cl, lc, more>>

\* ------------------------------------- the discovery pass, one node at a time
MaxDom == 3
MaxVisits == 4

(* The elements of the page the selectors can match. Two of them show the  *)
(* same text in different case, one shows no text at all.                   *)
DomNodes ==
  { Node(<<>>, NoUrl, UPlain),
    Node(LPaa, NoUrl, UCwcot),
    Node(LowerSeq(LPaa), NoUrl, UPlain),
    Node(LDisc, NoUrl, UPlain) }

\* labelCounts.get(k) || 0 and labelCounts.set(k, v)
Get(m, k) == IF k \in DOMAIN m THEN m[k] ELSE 0
Set(m, k, v) == [x \in (DOMAIN m) \cup {k} |-> IF x = k THEN v ELSE m[x]]

SeenNever(seenNodes, n) == FALSE

\* seenNodes.has(node)
SeenBefore(seenNodes, n) == n \in seenNodes

CountsKept(d) == d.labelCounts

\* const labelCounts = new Map(), inside the evaluated function
CountsOfNewPass(d) == <<>>

IdlePass ==
  [pc |-> "idle", dom |-> <<>>, visits |-> <<>>, pos |-> 1, seenNodes |-> {},
   labelCounts |-> <<>>, tiles |-> <<>>, returned |-> <<>>, failed |-> <<>>]

\* the evaluated function starts: tiles, seenNodes and labelCounts are new
StartPass(d) ==
  [d EXCEPT !.pc = "pass", !.pos = 1, !.seenNodes = {},
            !.labelCounts = CountsOfNewPass(d), !.tiles = <<>>]

\* pushTile(node) of the in-page pass, node n of d.dom
pushTileOn(d, n) ==
  IF SeenBefore(d.seenNodes, n) THEN d
  ELSE LET seen == [d EXCEPT !.seenNodes = @ \cup {n}]
           label == d.dom[n].label
       IN IF label = <<>> THEN seen
          ELSE LET labelKey == LowerSeq(label)
                   ordinal == Get(d.labelCounts, labelKey)
               IN [seen EXCEPT
                     !.labelCounts = Set(@, labelKey, ordinal + 1),
                     !.tiles = Append(@, [label |-> label, href |-> d.dom[n].href,
                                          ordinal |-> ordinal, node |-> n])]

\* scope.querySelectorAll(sel).forEach(pushTile), one element
PushTile ==
  /\ dt.pc = "pass"
  /\ dt.pos <= Len(dt.visits)
  /\ dt' = [pushTileOn(dt, dt.visits[dt.pos]) EXCEPT !.pos = dt.pos + 1]
  /\ UNCHANGED <<vars, path, sf, cl, ing, lc, more>>

\* return tiles; the caller may list the tiles of the same page again
PassReturn ==
  /\ dt.pc = "pass"
  /\ dt.pos > Len(dt.visits)
  /\ LET d == [dt EXCEPT !.returned = Append(@, dt.tiles), !.failed = Append(@, FALSE)]
     IN dt' = IF Len(d.returned) < 2 THEN StartPass(d) ELSE [d EXCEPT !.pc = "done"]
  /\ UNCHANGED <<vars, path, sf, cl, ing, lc, more>>

\* page.evaluate rejects and safe gives up: .catch(() => []) answers
PassFails ==
  /\ dt.pc = "pass"
  /\ dt.pos = 1
  /\ LET d == [dt EXCEPT !.returned = Append(@, <<>>), !.failed = Append(@, TRUE)]
     IN dt' = IF Len(d.returned) < 2 THEN StartPass(d) ELSE [d EXCEPT !.pc = "done"]
  /\ UNCHANGED <<vars, path, sf, cl, ing, lc, more>>

\* ------------------------------------------------------------------- safe
(* The error texts safe tells apart: "ctx" and "conn" match ERR_RE,        *)
(* "pageclosed" contains 'Page is closed', "conn+pageclosed" does both     *)
(* ('Target closed: Page is closed'), "other" does neither.                *)
SafeErrs == ErrKinds \cup {"conn+pageclosed"}

\* ERR_RE.test(String(e))
MatchesErrRe(e) == e \in {"ctx", "conn", "conn+pageclosed"}

\* String(e).includes('Page is closed')
SaysPageClosed(e) == e \in {"pageclosed", "conn+pageclosed"}

\* a variant that looks at the transient signature only
RetriedThoughClosed(e, i, tries) == MatchesErrRe(e) /\ i # tries - 1

\* the catch block goes on to sleep and to the next call
Retried(e, i, tries) == ~SaysPageClosed(e) /\ MatchesErrRe(e) /\ i # tries - 1

\* a variant that waits the same time after every failure
BackoffFlat(wait, i) == wait

\* sleep(wait * (i + 1))
Backoff(wait, i) == wait * (i + 1)

\* a variant that answers for the error instead of throwing it
GiveUpSilently(s, e) == [s EXCEPT !.pc = "returned", !.thrown = "none"]

\* throw e
GiveUp(s, e) == [s EXCEPT !.pc = "threw", !.thrown = e]

(* script[k]: what the k-th call of fn ends with, "ok" or an error; i the   *)
(* loop index; calls, slept: the calls made and the waits slept (a history) *)
IdleSafe ==
  [pc |-> "idle", tries |-> 0, wait |-> 0, script |-> <<>>, i |-> 0, calls |-> 0,
   slept |-> <<>>, last |-> "undefined", thrown |-> "none"]

SafeInputs ==
  { [IdleSafe EXCEPT !.pc = "call", !.tries = n, !.wait = w, !.script = sc] :
      n \in 0..DefaultTries, w \in {DefaultWait, 2 * DefaultWait},
      sc \in UNION { [1..k -> {"ok"} \cup SafeErrs] : k \in 0..DefaultTries } }

\* try { return await fn(); } catch (e) { last = e; ... }
SafeCall ==
  /\ sf.pc = "call"
  /\ sf.i < sf.tries
  /\ LET e == sf.script[sf.i + 1]
         s1 == [sf EXCEPT !.calls = @ + 1]
         s2 == [s1 EXCEPT !.last = e]
     IN sf' = IF e = "ok" THEN [s1 EXCEPT !.pc = "returned"]
              ELSE IF Retried(e, sf.i, sf.tries) THEN [s2 EXCEPT !.pc = "sleep"]
              ELSE GiveUp(s2, e)
  /\ UNCHANGED <<vars, path, rest>>

\* await sleep(wait * (i + 1)); i++
SafeSleep ==
  /\ sf.pc = "sleep"
  /\ sf' = [sf EXCEPT !.slept = Append(@, Backoff(sf.wait, sf.i)), !.i = @ + 1,
                       !.pc = "call"]
  /\ UNCHANGED <<vars, path, rest>>

\* the loop ended without a return: throw last
SafeExhausted ==
  /\ sf.pc = "call"
  /\ sf.i >= sf.tries
  /\ sf' = GiveUp(sf, sf.last)
  /\ UNCHANGED <<vars, path, rest>>

\* --------------------------------------------- one locate, step by step
MaxPolls == 6
\* the calls of clickTileAndSniffPdf followed on one page (loop of 977-984)
MaxCalls == 2

(* What the in-page pass and the snapshot find on the page: root, whether  *)
(* a documents container exists; byLabel, the controls whose text is the   *)
(* label of the tile; byId, a control with the data-elm-id of the tile;    *)
(* byPattern, the controls whose text says purchase agreement addendum;    *)
(* snapshot, the elements of getClickableTileData with the tile's text.    *)
DomCases ==
  { d \in [root : BOOLEAN, byLabel : 0..2, byId : BOOLEAN, byPattern : 0..1,
           snapshot : 0..1] :
      /\ ~d.root => (d.byLabel = 0 /\ ~d.byId /\ d.byPattern = 0)
      /\ d.byLabel + (IF d.byId THEN 1 ELSE 0) + d.byPattern <= 2
      /\ d.byLabel = 2 \/ d.byLabel + (IF d.byId THEN 1 ELSE 0) + d.byPattern <= 1 }

LocTiles ==
  { [href |-> NoUrl, ordinal |-> 0, dataId |-> FALSE],
    [href |-> NoUrl, ordinal |-> 1, dataId |-> TRUE],
    [href |-> URelPdf, ordinal |-> 0, dataId |-> FALSE],
    [href |-> URoute, ordinal |-> 0, dataId |-> TRUE] }

(* response, cdp and popup count the observers on the page, the CDP        *)
(* subscriptions and the pending popup waits; capture tells whether        *)
(* window.__capture and its three patches are installed in the document;   *)
(* calls counts the calls made on this page so far.                        *)
IdleLocate ==
  [pc |-> "idle", tile |-> [href |-> NoUrl, ordinal |-> 0, dataId |-> FALSE],
   dom |-> [root |-> FALSE, byLabel |-> 0, byId |-> FALSE, byPattern |-> 0, snapshot |-> 0],
   response |-> 0, cdp |-> 0, popup |-> 0, capture |-> FALSE,
   i |-> 0, budget |-> 0, clicks |-> 0, external |-> FALSE, passRan |-> FALSE,
   sig |-> NoSignals, perfAt |-> 0, polls |-> 0, via |-> "none", ret |-> NoUrl,
   calls |-> 0]

\* lines 404-416: the control the in-page pass settles on, if any
ControlFound(d, tile) ==
  /\ d.root
  /\ \/ d.byLabel >= 1
     \/ tile.dataId /\ d.byId
     \/ d.byPattern >= 1

\* el.click(); el.dispatchEvent(new MouseEvent('click', ...))
ClicksOfPass == 2

(* setupCDPNetworkMonitoring (280-290): a new session of the page gets a   *)
(* Network.responseReceived handler; the sessions opened by earlier calls  *)
(* are not detached and keep theirs. A failure adds nothing.               *)
CdpAfterSetup(n, cdpOk) == IF cdpOk THEN n + 1 ELSE n

(* Line 396, and the listeners of lines 397-401: removeAllListeners and    *)
(* page.on leave one response observer; waitForEvent adds a popup wait.    *)
LocArm ==
  /\ lc.pc = "arm"
  /\ IF lc.tile.href # NoUrl /\ isPdfUrl(lc.tile.href)
     THEN lc' = [lc EXCEPT !.pc = "done", !.via = "href", !.ret = toAbs(lc.tile.href)]
     ELSE \E cdpOk \in BOOLEAN :
            lc' = [lc EXCEPT !.pc = "activate", !.response = 1,
                             !.cdp = CdpAfterSetup(@, cdpOk), !.popup = @ + 1]
  /\ UNCHANGED <<vars, path, sf, dt, cl, ing, more>>

(* One call of the in-page pass under safe (402-421), and the handler of   *)
(* .catch (421-427) when safe gives up. A pass that rejects may have run   *)
(* its clicks before the context went away.                                *)
LocActivate ==
  /\ lc.pc = "activate"
  /\ LET found == ControlFound(lc.dom, lc.tile)
     IN \/ lc' = [lc EXCEPT !.pc = "sniff", !.passRan = TRUE,
                            !.clicks = IF found THEN @ + ClicksOfPass ELSE @]
        \/ /\ lc.budget > 0
           /\ \E e \in ErrKinds : \E delivered \in {0} \cup (IF found THEN {ClicksOfPass} ELSE {}) :
                LET g == [lc EXCEPT !.budget = @ - 1, !.clicks = @ + delivered]
                IN IF Retried(e, lc.i, DefaultTries)
                   THEN lc' = [g EXCEPT !.i = @ + 1]
                   ELSE \E snapshotOk \in BOOLEAN :
                          lc' = IF snapshotOk /\ lc.dom.snapshot >= 1
                                THEN [g EXCEPT !.pc = "sniff", !.external = TRUE,
                                               !.clicks = @ + 1]
                                ELSE [g EXCEPT !.pc = "sniff"]
  /\ UNCHANGED <<vars, path, sf, dt, cl, ing, more>>

\* what the sources hold after sleep(900), given what was armed and clicked
Observed(g) ==
  IF g.clicks = 0 THEN { NoSignals }
  ELSE { s \in SignalSet(UCwcot) :
           /\ g.cdp = 0 => s.cdp = <<>>
           /\ ~g.capture => (s.open = NoUrl /\ s.anchor = NoUrl /\ s.blob = <<>>) }

ImmediateCdpFirst(sig) ==
  IF isPdfUrl(sig.now) THEN "now"
  ELSE IF isPdfUrl(sig.popup) THEN "popup"
  ELSE IF First(sig.cdp) # NoUrl /\ isPdfUrl(First(sig.cdp)) THEN "cdp"
  ELSE IF First(sig.hits) # NoUrl /\ isPdfUrl(First(sig.hits)) THEN "hits"
  ELSE "none"

\* lines 429-434: the source whose value is returned at once, if any
Immediate(sig) ==
  IF isPdfUrl(sig.now) THEN "now"
  ELSE IF isPdfUrl(sig.popup) THEN "popup"
  ELSE IF First(sig.hits) # NoUrl /\ isPdfUrl(First(sig.hits)) THEN "hits"
  ELSE IF First(sig.cdp) # NoUrl /\ isPdfUrl(First(sig.cdp)) THEN "cdp"
  ELSE "none"

\* what the source holds, as the return statement gives it
Held(sig, source) ==
  CASE source = "now" -> sig.now
    [] source = "popup" -> sig.popup
    [] source = "hits" -> First(sig.hits)
    [] source = "cdp" -> First(sig.cdp)
    [] source = "perf" -> PerfFind(sig.perf)
    [] source = "open" -> toAbs(sig.open)
    [] source = "anchor" -> toAbs(sig.anchor)
    [] source = "blob" -> First(sig.blob)
    [] OTHER -> NoUrl

(* sleep(900), then the address of the page, the popup and the two hit     *)
(* lists. perfAt is the inspection at which the resource-timing entry is   *)
(* there: 0 never, MaxPolls + 1 too late. The return of line 430 comes     *)
(* before `await popupWait`, so the waits stay pending; once the wait of   *)
(* this call has settled (a popup, or its 7000 ms), so have the older.     *)
LocSniff ==
  /\ lc.pc = "sniff"
  /\ \E sig \in Observed(lc) :
     \E perfAt \in IF sig.perf = <<>> THEN {0} ELSE 1..(MaxPolls + 1) :
       LET g == [lc EXCEPT !.sig = sig, !.perfAt = perfAt,
                           !.popup = IF Immediate(sig) = "now" THEN @ ELSE 0]
       IN lc' = IF Immediate(sig) # "none"
                THEN [g EXCEPT !.pc = "done", !.via = Immediate(sig),
                               !.ret = Held(sig, Immediate(sig))]
                ELSE [g EXCEPT !.pc = "poll"]
  /\ UNCHANGED <<vars, path, sf, dt, cl, ing, more>>

\* one round of the loop of lines 435-447
LocPoll ==
  /\ lc.pc = "poll"
  /\ lc.polls < MaxPolls
  /\ LET round == lc.polls + 1
         perf == IF lc.perfAt # 0 /\ round >= lc.perfAt THEN PerfFind(lc.sig.perf) ELSE NoUrl
     IN lc' = IF isPdfUrl(perf)
              THEN [lc EXCEPT !.pc = "done", !.polls = round, !.via = "perf", !.ret = perf]
              ELSE [lc EXCEPT !.polls = round]
  /\ UNCHANGED <<vars, path, sf, dt, cl, ing, more>>

\* lines 448-452: readCapture, then return
LocCapture ==
  /\ lc.pc = "poll"
  /\ lc.polls = MaxPolls
  /\ LET cap == lc.sig
         via == IF isPdfUrl(cap.open) THEN "open"
                ELSE IF isPdfUrl(cap.anchor) THEN "anchor"
                ELSE IF First(cap.blob) # NoUrl /\ isPdfUrl(First(cap.blob)) THEN "blob"
                ELSE "none"
     IN lc' = [lc EXCEPT !.pc = "done", !.via = via, !.ret = Held(cap, via)]
  /\ UNCHANGED <<vars, path, sf, dt, cl, ing, more>>

(* The candidate loop (977-984) calls locate for the next tile on the same *)
(* page: the page keeps its listeners, its CDP sessions and its document;  *)
(* a popup wait left pending may have run out of its 7000 ms meanwhile.    *)
LocAgain ==
  /\ lc.pc = "done"
  /\ lc.calls < MaxCalls
  /\ \E tile \in LocTiles : \E expired \in 0..lc.popup :
       lc' = [IdleLocate EXCEPT !.pc = "arm", !.tile = tile, !.dom = lc.dom,
                                !.capture = lc.capture, !.budget = lc.budget,
                                !.response = lc.response, !.cdp = lc.cdp,
                                !.popup = lc.popup - expired,
                                !.calls = lc.calls + 1]
  /\ UNCHANGED <<vars, path, sf, dt, cl, ing, more>>

\* ------------------------------------------ the shared reader, call by call
MaxReaders == 2
MaxExtractions == 3

(* The orchestrator calls that can be under way together: the one the main *)
(* loop gave up waiting for, and the one of the URL it went on to.         *)
Callers == {"abandoned", "current"}

(* A page of context.newPage(): blank, about:blank was loaded by goto;     *)
(* scripts, the script tags added to the document since.                   *)
NoReaderPage == [made |-> FALSE, closed |-> FALSE, blank |-> FALSE, scripts |-> {}]

(* One call of analyzeAddendumPdf: reader, the local constant; i, the loop *)
(* index of safe; dead, an invocation of this call has met a dead          *)
(* session; again, evaluate was invoked after that (a history).            *)
IdleCaller == [pc |-> "idle", reader |-> 0, i |-> 0, dead |-> FALSE, again |-> FALSE]

\* singleton is __pdfReader: 0 for null, else the page it refers to
IdleReader ==
  [singleton |-> 0, pages |-> [k \in 1..MaxReaders |-> NoReaderPage], made |-> 0,
   n |-> 0, budget |-> 0, callers |-> [c \in Callers |-> IdleCaller]]

\* __pdfReader && !__pdfReader.isClosed?.()
Usable(r, k) == k # 0 /\ ~r.pages[k].closed

\* about:blank loaded and both scripts of pdf.js in the document
Initialised(pg) == pg.blank /\ pg.scripts = {"lib", "worker"}

\* const reader = await getPdfReader(context), entered
RdCall(c) ==
  /\ rd.callers[c].pc \in {"idle", "returned", "threw"}
  /\ rd.n < MaxExtractions
  /\ rd' = [rd EXCEPT !.n = @ + 1, !.callers[c] = [IdleCaller EXCEPT !.pc = "get"]]
  /\ UNCHANGED <<vars, path, sf, dt, cl, ing, lc, geo>>

\* if (__pdfReader && !__pdfReader.isClosed?.()) return __pdfReader;
RdGet(c) ==
  /\ rd.callers[c].pc = "get"
  /\ rd' = IF Usable(rd, rd.singleton)
           THEN [rd EXCEPT !.callers[c].pc = "extract", !.callers[c].reader = rd.singleton]
           ELSE [rd EXCEPT !.callers[c].pc = "newpage"]
  /\ UNCHANGED <<vars, path, sf, dt, cl, ing, lc, geo>>

(* __pdfReader = await context.newPage(); a rejection leaves the variable  *)
(* as it was and ends analyzeAddendumPdf before its try block.             *)
RdNewPage(c) ==
  /\ rd.callers[c].pc = "newpage"
  /\ \/ /\ rd.made < MaxReaders
        /\ rd' = [rd EXCEPT !.made = @ + 1, !.singleton = rd.made + 1,
                            !.pages[rd.made + 1] = [NoReaderPage EXCEPT !.made = TRUE],
                            !.callers[c].pc = "goto"]
     \/ /\ rd.budget > 0
        /\ rd' = [rd EXCEPT !.budget = @ - 1, !.callers[c].pc = "threw"]
  /\ UNCHANGED <<vars, path, sf, dt, cl, ing, lc, geo>>

\* what a step of the initialisation leaves in the document of the page
InitDone(pg, step) ==
  CASE step = "goto" -> [pg EXCEPT !.blank = TRUE, !.scripts = {}]
    [] step = "lib" -> [pg EXCEPT !.scripts = @ \cup {"lib"}]
    [] step = "worker" -> [pg EXCEPT !.scripts = @ \cup {"worker"}]

AfterStep(step) ==
  CASE step = "goto" -> "lib" [] step = "lib" -> "worker" [] step = "worker" -> "extract"

(* await safe(() => __pdfReader.goto(...)), and the two addScriptTag: each *)
(* acts on what the variable refers to by then; when safe gives up,        *)
(* getPdfReader rejects and the variable keeps the page. After the last    *)
(* step: return __pdfReader.                                               *)
RdInit(c) ==
  /\ rd.callers[c].pc \in {"goto", "lib", "worker"}
  /\ LET k == rd.singleton
         step == rd.callers[c].pc
     IN \/ /\ Usable(rd, k)
           /\ rd' = [rd EXCEPT !.pages[k] = InitDone(@, step),
                               !.callers[c].pc = AfterStep(step),
                               !.callers[c].reader = IF step = "worker" THEN k ELSE @]
        \/ /\ ~Usable(rd, k)
           /\ rd' = [rd EXCEPT !.callers[c].pc = "threw"]
        \/ /\ Usable(rd, k)
           /\ rd.budget > 0
           /\ rd' = [rd EXCEPT !.budget = @ - 1, !.callers[c].pc = "threw"]
  /\ UNCHANGED <<vars, path, sf, dt, cl, ing, lc, geo>>

(* What reader.evaluate can end with: a TypeError without a reader or      *)
(* without pdfjsLib in the document, the error of a closed target in one   *)
(* of its wordings, the text, or a fault of the environment.               *)
EvaluateEnds(r, k) ==
  IF k = 0 THEN {"other"}
  ELSE IF r.pages[k].closed THEN {"conn", "pageclosed", "other"}
  ELSE IF "lib" \notin r.pages[k].scripts THEN {"other"}
  ELSE {"ok"} \cup (IF r.budget > 0 THEN ErrKinds ELSE {})

\* the session of the reader is gone: the error says so, or isClosed()
SessionDead(r, k, e) == e = "conn" \/ (k # 0 /\ r.pages[k].closed)

\* if (reader.isClosed?.() || /Target closed|Connection closed/i.test(String(e))) __pdfReader = null
ClearsSingleton(r, k, e) == k # 0 /\ (r.pages[k].closed \/ e = "conn")

(* One invocation of reader.evaluate under safe(fn) in analyzeAddendumPdf, *)
(* and the catch block when safe throws.                                   *)
RdExtract(c) ==
  /\ rd.callers[c].pc = "extract"
  /\ LET me == rd.callers[c]
         k == me.reader
     IN \E e \in EvaluateEnds(rd, k) :
          LET called == [me EXCEPT !.again = @ \/ me.dead]
              fault == e # "ok" /\ k # 0 /\ ~rd.pages[k].closed
                       /\ "lib" \in rd.pages[k].scripts
              r1 == [rd EXCEPT !.budget = IF fault THEN @ - 1 ELSE @]
          IN rd' = IF e = "ok"
                   THEN [r1 EXCEPT !.callers[c] = [called EXCEPT !.pc = "returned"]]
                   ELSE IF Retried(e, me.i, DefaultTries)
                   THEN [r1 EXCEPT !.callers[c] =
                           [called EXCEPT !.i = @ + 1,
                                          !.dead = @ \/ SessionDead(rd, k, e)]]
                   ELSE [r1 EXCEPT !.callers[c] = [called EXCEPT !.pc = "threw"],
                                   !.singleton = IF ClearsSingleton(rd, k, e) THEN 0 ELSE @]
  /\ UNCHANGED <<vars, path, sf, dt, cl, ing, lc, geo>>

\* the page of a reader goes away (a crash, the browser closing it)
RdDies ==
  /\ rd.budget > 0
  /\ \E k \in 1..MaxReaders :
       /\ rd.pages[k].made
       /\ ~rd.pages[k].closed
       /\ rd' = [rd EXCEPT !.pages[k].closed = TRUE, !.budget = @ - 1]
  /\ UNCHANGED <<vars, path, sf, dt, cl, ing, lc, geo>>

\* ------------------------------------------------------- geocode cache
MaxGeoCalls == 4

\* address_clean values, '' among them; what Mapbox can answer; null
Addresses == {"", "a1", "a2"}
Coords == {"c1", "c2"}
NoCoords == "null"

(* The requests the server works on together (POST /api/geocode/missing    *)
(* awaits the lookups, so a second request starts meanwhile).              *)
GeoCallers == {"r1", "r2"}

(* One call of resolveCoordinates: seq, its number among the calls made;   *)
(* hit, what the cache held for the address when the call read it;         *)
(* remote, the call went to the network.                                   *)
IdleGeoCall ==
  [pc |-> "idle", seq |-> 0, addr |-> "", allow |-> FALSE, hit |-> NoCoords,
   remote |-> FALSE, ret |-> NoCoords]

\* token is MAPBOX_TOKEN set; cache is the geocodes table; lookups counts fetch
IdleGeo ==
  [token |-> FALSE, cache |-> [a \in Addresses \ {""} |-> NoCoords], n |-> 0,
   lookups |-> 0, calls |-> [c \in GeoCallers |-> IdleGeoCall]]

\* if (!addressClean) return null; return stmtSelectGeocode.get(addressClean) || null
getCachedGeocode(cache, addressClean) ==
  IF addressClean = "" THEN NoCoords ELSE cache[addressClean]

\* a variant that stores nothing
saveGeocodeNever(cache, addressClean, coords) == cache

\* if (!addressClean || !coords) return null; stmtUpsertGeocode.run(...)
saveGeocode(cache, addressClean, coords) ==
  IF addressClean = "" \/ coords = NoCoords THEN cache
  ELSE [cache EXCEPT ![addressClean] = coords]

\* what geocodeRemote answers: null without address or token, else coordinates or null
geocodeRemote(token, addressClean) ==
  IF addressClean = "" \/ ~token THEN {NoCoords} ELSE Coords \cup {NoCoords}

\* resolveCoordinates up to `await geocodeRemote(addressClean)`
GeoResolve(c) ==
  /\ geo.calls[c].pc \in {"idle", "returned"}
  /\ geo.n < MaxGeoCalls
  /\ \E addr \in Addresses : \E allowNetwork \in BOOLEAN :
       LET cached == getCachedGeocode(geo.cache, addr)
           call == [IdleGeoCall EXCEPT !.seq = geo.n + 1, !.addr = addr,
                                       !.allow = allowNetwork, !.hit = cached]
           g == [geo EXCEPT !.n = @ + 1]
       IN geo' = IF addr = "" THEN [g EXCEPT !.calls[c] = [call EXCEPT !.pc = "returned"]]
                 ELSE IF cached # NoCoords
                 THEN [g EXCEPT !.calls[c] = [call EXCEPT !.pc = "returned", !.ret = cached]]
                 ELSE IF ~allowNetwork \/ ~geo.token
                 THEN [g EXCEPT !.calls[c] = [call EXCEPT !.pc = "returned"]]
                 ELSE [g EXCEPT !.calls[c] = [call EXCEPT !.pc = "remote", !.remote = TRUE],
                                !.lookups = @ + 1]
  /\ UNCHANGED <<vars, path, sf, dt, cl, ing, lc, rd>>

\* coords = await geocodeRemote(...); if (coords) saveGeocode(...); return coords
GeoAnswer(c) ==
  /\ geo.calls[c].pc = "remote"
  /\ \E coords \in geocodeRemote(geo.token, geo.calls[c].addr) :
       geo' = [geo EXCEPT
                 !.cache = IF coords # NoCoords
                           THEN saveGeocode(@, geo.calls[c].addr, coords) ELSE @,
                 !.calls[c].pc = "returned", !.calls[c].ret = coords]
  /\ UNCHANGED <<vars, path, sf, dt, cl, ing, lc, rd>>

\* DELETE /api/geocode/cache
GeoClear ==
  /\ geo.cache # IdleGeo.cache
  /\ geo' = [geo EXCEPT !.cache = IdleGeo.cache]
  /\ UNCHANGED <<vars, path, sf, dt, cl, ing, lc, rd>>

\* a variant whose default carries the reason of a finished search
defaultLikeNotFound ==
  [selection_reason |-> "paa_not_found", label |-> <<>>, url |-> NoUrl,
   isCWCOT |-> FALSE, cwcot_hits |-> <<>>, tiles_seen |-> 0]

defaultDetectResult ==
  [selection_reason |-> "timeout_no_paa", label |-> <<>>, url |-> NoUrl,
   isCWCOT |-> FALSE, cwcot_hits |-> <<>>, tiles_seen |-> 0]

\* a variant that writes every row with the reason of a late result
RowTaggedSlow(url, picked) ==
  [url |-> url, addendum_url |-> picked.url, isCWCOT |-> picked.isCWCOT,
   cwcot_hits |-> picked.cwcot_hits, selection_reason |-> "paa_slow",
   clicked_label |-> picked.label, error |-> ""]

\* const row = { url, addendum_url: picked.url||'', isCWCOT, ..., error:'' }
Row(url, picked) ==
  [url |-> url, addendum_url |-> picked.url, isCWCOT |-> picked.isCWCOT,
   cwcot_hits |-> picked.cwcot_hits, selection_reason |-> picked.selection_reason,
   clicked_label |-> picked.label, error |-> ""]

\* the row of the catch block
ErrorRow(url, e) ==
  [url |-> url, addendum_url |-> NoUrl, isCWCOT |-> FALSE, cwcot_hits |-> <<>>,
   selection_reason |-> "", clicked_label |-> <<>>, error |-> e]

\* a variant that writes the row of the catch block for a late rejection
LateThrownReported(url, e) == ErrorRow(url, e)

(* detectPromise.catch(()=>null) turns a late rejection into null, so      *)
(* `late` is falsy and picked = defaultDetectResult: the error is dropped. *)
LateThrown(url, e) == Row(url, defaultDetectResult)

\* a variant that tags every late result
LateTagAlways(late) == [late EXCEPT !.selection_reason = "paa_slow"]

\* if (!late.selection_reason) late.selection_reason = 'paa_slow'
LateTag(late) ==
  IF late.selection_reason = "" THEN [late EXCEPT !.selection_reason = "paa_slow"]
  ELSE late

\* the pages the main loop meets
MainPages ==
  { Page(<<Node(LPaa, NoUrl, UCwcot)>>, <<UCwcot>>),
    Page(<<Node(LPaa, NoUrl, UPlain)>>, <<>>) }

\* a variant that pushes the row in the try block and again in the catch block
PushRowTwice(row, how) ==
  /\ out' = Append(Append(out, row), row)
  /\ path' = Append(Append(path, how), how)
  /\ closed' = closed \cup {cur}
  /\ cur' = cur + 1
  /\ mainpc' = IF cur = NumUrls THEN "write" ELSE "open"

\* out.push(row); finally { safeClosePage(p) }; the next url, or the end of the loop
PushRow(row, how) ==
  /\ out' = Append(out, row)
  /\ path' = Append(path, how)
  /\ closed' = closed \cup {cur}
  /\ cur' = cur + 1
  /\ mainpc' = IF cur = NumUrls THEN "write" ELSE "open"

\* newPage, safeNavigate, ..., detectPromise = getBestAddendumAndDetect(p, url, debug)
OpenPage ==
  /\ mainpc = "open"
  /\ cur <= NumUrls
  /\ \/ \E pg \in MainPages :
          /\ page' = [page EXCEPT ![cur] = pg]
          /\ task' = [task EXCEPT ![cur] = StartAttempt(0, FALSE)]
          /\ mainpc' = "race1"
          /\ UNCHANGED <<closed, pdfReader, cur, out, faults, path, sf, rest>>
     \/ /\ faults > 0
        /\ \E e \in ErrKinds : PushRow(ErrorRow(cur, e), "preError")
        /\ faults' = faults - 1
        /\ UNCHANGED <<page, task, pdfReader, sf, rest>>

(* let p = await context.newPage() stands before the try block: when it    *)
(* rejects, the loop is left, nothing is written and main's catch calls    *)
(* process.exit(1).                                                        *)
Fatal ==
  /\ mainpc = "open"
  /\ cur <= NumUrls
  /\ faults > 0
  /\ faults' = faults - 1
  /\ mainpc' = "exited"
  /\ UNCHANGED <<page, closed, task, pdfReader, cur, out, path, sf, rest>>

\* picked = await Promise.race([detectPromise, sleep(detectTimeout).then(()=>null)])
RaceSettled ==
  /\ mainpc = "race1"
  /\ \/ /\ task[cur].pc = "returned"
        /\ PushRow(Row(cur, task[cur].ret), "intime")
     \/ /\ task[cur].pc = "threw"
        /\ PushRow(ErrorRow(cur, task[cur].err), "error")
  /\ UNCHANGED <<page, task, pdfReader, faults, sf, rest>>

BudgetTimer ==
  /\ mainpc = "race1"
  /\ ~Settled(task[cur])
  /\ mainpc' = "race2"
  /\ UNCHANGED <<page, closed, task, pdfReader, cur, out, faults, path, sf, rest>>

\* late = await Promise.race([detectPromise.catch(()=>null), sleep(...).then(()=>null)])
LateSettled ==
  /\ mainpc = "race2"
  /\ \/ /\ task[cur].pc = "returned"
        /\ PushRow(Row(cur, LateTag(task[cur].ret)), "late")
     \/ /\ task[cur].pc = "threw"
        /\ PushRow(LateThrown(cur, task[cur].err), "lateError")
  /\ UNCHANGED <<page, task, pdfReader, faults, sf, rest>>

ExtensionTimer ==
  /\ mainpc = "race2"
  /\ ~Settled(task[cur])
  /\ PushRow(Row(cur, defaultDetectResult), "timeout")
  /\ UNCHANGED <<page, task, pdfReader, faults, sf, rest>>

\* fs.writeFile(cfg.output, ...); browser.close(); process.exit(0)
Exit ==
  /\ mainpc = "write"
  /\ mainpc' = "exited"
  /\ UNCHANGED <<page, closed, task, pdfReader, cur, out, faults, path, sf, rest>>

Orchestrate == \E p \in Pages : OrchStep(p) /\ UNCHANGED <<path, sf, rest>>

Init ==
  /\ geo = IdleGeo
  /\ rd = IdleReader
  /\ page = [p \in Pages |-> NoPage]
  /\ closed = {}
  /\ task = [p \in Pages |-> IdleTask]
  /\ pdfReader = "none"
  /\ mainpc = "open"
  /\ cur = 1
  /\ out = <<>>
  /\ faults = MaxFaults
  /\ path = <<>>
  /\ sf = IdleSafe
  /\ dt = IdlePass
  /\ cl = IdleCall
  /\ ing = IdleIngest
  /\ lc = IdleLocate

Next ==
  \/ OpenPage
  \/ Fatal
  \/ RaceSettled
  \/ BudgetTimer
  \/ LateSettled
  \/ ExtensionTimer
  \/ Exit
  \/ Orchestrate

Spec == Init /\ [][Next]_allvars

(* One call of getBestAddendumAndDetect on any page of PageSet, its caller *)
(* still waiting: the timers of the main loop do not fire.                 *)
InitDetect ==
  /\ geo = IdleGeo
  /\ rd = IdleReader
  /\ page \in [Pages -> PageSet]
  /\ \A p \in Pages : p # 1 => page[p] = NoPage
  /\ closed = {}
  /\ task = [p \in Pages |-> IF p = 1 THEN StartAttempt(0, TRUE) ELSE IdleTask]
  /\ pdfReader = "none"
  /\ mainpc = "race1"
  /\ cur = 1
  /\ out = <<>>
  /\ faults = MaxAttempts
  /\ path = <<>>
  /\ sf = IdleSafe
  /\ dt = IdlePass
  /\ cl = IdleCall
  /\ ing = IdleIngest
  /\ lc = IdleLocate

NextDetect == Orchestrate

SpecDetect == InitDetect /\ [][NextDetect]_allvars

(* The same call, audited instead of watched: the history kept is the set  *)
(* of errors that were answered for instead of thrown.                     *)
FaultPages == { pg \in PageSet : Len(pg.nodes) <= 1 }

InitFaults ==
  /\ geo = IdleGeo
  /\ rd = IdleReader
  /\ page \in [Pages -> FaultPages \cup {NoPage}]
  /\ \A p \in Pages : p # 1 => page[p] = NoPage
  /\ closed = {}
  /\ task = [p \in Pages |->
               IF p = 1 THEN [StartAttempt(0, FALSE) EXCEPT !.audit = TRUE] ELSE IdleTask]
  /\ pdfReader = "none"
  /\ mainpc = "race1"
  /\ cur = 1
  /\ out = <<>>
  /\ faults = MaxAttempts
  /\ path = <<>>
  /\ sf = IdleSafe
  /\ dt = IdlePass
  /\ cl = IdleCall
  /\ ing = IdleIngest
  /\ lc = IdleLocate

NextFaults == Orchestrate

SpecFaults == InitFaults /\ [][NextFaults]_allvars

\* one call of safe, for every script of what fn does
InitSafe ==
  /\ geo = IdleGeo
  /\ rd = IdleReader
  /\ page = [p \in Pages |-> NoPage]
  /\ closed = {}
  /\ task = [p \in Pages |-> IdleTask]
  /\ pdfReader = "none"
  /\ mainpc = "open"
  /\ cur = 1
  /\ out = <<>>
  /\ faults = 0
  /\ path = <<>>
  /\ sf \in { s \in SafeInputs : Len(s.script) = s.tries }
  /\ dt = IdlePass
  /\ cl = IdleCall
  /\ ing = IdleIngest
  /\ lc = IdleLocate

NextSafe == SafeCall \/ SafeSleep \/ SafeExhausted

SpecSafe == InitSafe /\ [][NextSafe]_allvars

(* listDocumentTiles called twice on one page. dom holds the elements of   *)
(* the page; visits is what the loops over scopes and selectors hand to    *)
(* pushTile, in order: an element matched by several selectors, or under   *)
(* several scopes, comes several times.                                    *)
InitTiles ==
  /\ geo = IdleGeo
  /\ rd = IdleReader
  /\ page = [p \in Pages |-> NoPage]
  /\ closed = {}
  /\ task = [p \in Pages |-> IdleTask]
  /\ pdfReader = "none"
  /\ mainpc = "open"
  /\ cur = 1
  /\ out = <<>>
  /\ faults = 0
  /\ path = <<>>
  /\ sf = IdleSafe
  /\ cl = IdleCall
  /\ ing = IdleIngest
  /\ lc = IdleLocate
  /\ \E dom \in SeqsUpTo(DomNodes, MaxDom) :
     \E visits \in SeqsUpTo(1..Len(dom), MaxVisits) :
       dt = StartPass([IdlePass EXCEPT !.dom = dom, !.visits = visits])

NextTiles == PushTile \/ PassReturn \/ PassFails

SpecTiles == InitTiles /\ [][NextTiles]_allvars

\* one call of a classifier, for every input
InitClassify ==
  /\ geo = IdleGeo
  /\ rd = IdleReader
  /\ page = [p \in Pages |-> NoPage]
  /\ closed = {}
  /\ task = [p \in Pages |-> IdleTask]
  /\ pdfReader = "none"
  /\ mainpc = "open"
  /\ cur = 1
  /\ out = <<>>
  /\ faults = 0
  /\ path = <<>>
  /\ sf = IdleSafe
  /\ dt = IdlePass
  /\ ing = IdleIngest
  /\ lc = IdleLocate
  /\ \/ \E label \in LabelInputs :
          cl = [IdleCall EXCEPT !.pc = "call", !.fn = "labelType", !.label = label]
     \/ \E in \in TextInputs :
          cl = [IdleCall EXCEPT !.pc = "call", !.fn = "detect",
                                !.text = in.text, !.filename = in.filename]

NextClassify == ClassifyLabel \/ DetectText

SpecClassify == InitClassify /\ [][NextClassify]_allvars

\* ingest runs on a store that starts empty, for every report
InitIngest ==
  /\ geo = IdleGeo
  /\ rd = IdleReader
  /\ page = [p \in Pages |-> NoPage]
  /\ closed = {}
  /\ task = [p \in Pages |-> IdleTask]
  /\ pdfReader = "none"
  /\ mainpc = "open"
  /\ cur = 1
  /\ out = <<>>
  /\ faults = 0
  /\ path = <<>>
  /\ sf = IdleSafe
  /\ dt = IdlePass
  /\ cl = IdleCall
  /\ ing = IdleIngest
  /\ lc = IdleLocate

NextIngest == StartRun \/ UpsertRecord \/ Deactivate \/ RunFails \/ Prune

SpecIngest == InitIngest /\ [][NextIngest]_allvars

(* Calls of clickTileAndSniffPdf on one page, for every tile and page; the *)
(* capture is installed already when patchClickCapture ran in this         *)
(* document before.                                                        *)
InitLocate ==
  /\ geo = IdleGeo
  /\ rd = IdleReader
  /\ page = [p \in Pages |-> NoPage]
  /\ closed = {}
  /\ task = [p \in Pages |-> IdleTask]
  /\ pdfReader = "none"
  /\ mainpc = "open"
  /\ cur = 1
  /\ out = <<>>
  /\ faults = 0
  /\ path = <<>>
  /\ sf = IdleSafe
  /\ dt = IdlePass
  /\ cl = IdleCall
  /\ ing = IdleIngest
  /\ \E tile \in LocTiles : \E dom \in DomCases : \E capture \in BOOLEAN :
       lc = [IdleLocate EXCEPT !.pc = "arm", !.tile = tile, !.dom = dom,
                               !.capture = capture, !.budget = MaxFaults,
                               !.calls = 1]

NextLocate == LocArm \/ LocActivate \/ LocSniff \/ LocPoll \/ LocCapture \/ LocAgain

SpecLocate == InitLocate /\ [][NextLocate]_allvars

(* Calls of analyzeAddendumPdf by two orchestrator calls on the one        *)
(* __pdfReader of the process.                                             *)
InitReader ==
  /\ geo = IdleGeo
  /\ page = [p \in Pages |-> NoPage]
  /\ closed = {}
  /\ task = [p \in Pages |-> IdleTask]
  /\ pdfReader = "none"
  /\ mainpc = "open"
  /\ cur = 1
  /\ out = <<>>
  /\ faults = 0
  /\ path = <<>>
  /\ sf = IdleSafe
  /\ dt = IdlePass
  /\ cl = IdleCall
  /\ ing = IdleIngest
  /\ lc = IdleLocate
  /\ rd = [IdleReader EXCEPT !.budget = MaxFaults]

NextReader ==
  \/ \E c \in Callers : RdCall(c) \/ RdGet(c) \/ RdNewPage(c) \/ RdInit(c) \/ RdExtract(c)
  \/ RdDies

SpecReader == InitReader /\ [][NextReader]_allvars

\* calls of resolveCoordinates on one geocodes table, with or without a token
InitGeo ==
  /\ page = [p \in Pages |-> NoPage]
  /\ closed = {}
  /\ task = [p \in Pages |-> IdleTask]
  /\ pdfReader = "none"
  /\ mainpc = "open"
  /\ cur = 1
  /\ out = <<>>
  /\ faults = 0
  /\ path = <<>>
  /\ sf = IdleSafe
  /\ dt = IdlePass
  /\ cl = IdleCall
  /\ ing = IdleIngest
  /\ lc = IdleLocate
  /\ rd = IdleReader
  /\ \E token \in BOOLEAN : geo = [IdleGeo EXCEPT !.token = token]

NextGeo == (\E c \in GeoCallers : GeoResolve(c) \/ GeoAnswer(c)) \/ GeoClear

SpecGeo == InitGeo /\ [][NextGeo]_allvars

\* ------------------------------------------------------------------ claims
\* the candidate tiles of page p, as a discovery that succeeds filters them
CandidatesOf(p) == SelectSeq(listDocumentTiles(page[p], TRUE), isPAA)

Watched == { p \in Pages : task[p].watch }

Tr(p) == task[p].trace

CandidateOps == {"locate", "locateFailed", "classify", "classifyFailed"}
StageOps == {"hidden", "direct", "interactive"}
TileReasons == {"paa_cwcot_hit", "paa_no_cwcot"}
FallbackReasons == {"hydration_paa", "legacy_paa"}

\* event i of the trace: a candidate's content classified as a match
MatchAt(p, i) ==
  /\ Tr(p)[i].op = "classify"
  /\ Tr(p)[i].idx >= 1
  /\ Detection(Tr(p)[i].url).isCWCOT

Matches(p) == { i \in 1..Len(Tr(p)) : MatchAt(p, i) }

\* the candidates located so far, in the order they were located
LocatedIdx(p) ==
  LET ev == SelectSeq(Tr(p), LAMBDA e : e.op = "locate")
  IN [k \in 1..Len(ev) |-> ev[k].idx]

(* C1, as stated: once a candidate's content classifies as a match, no     *)
(* later candidate is located or classified in that attempt; the            *)
(* orchestrator is Done at once, with reason paa_cwcot_hit.                 *)
C1_ShortCircuit ==
  \A p \in Watched : \A i \in Matches(p) :
    /\ i = Len(Tr(p))
    /\ task[p].pc = "returned"
    /\ task[p].ret.selection_reason = "paa_cwcot_hit"

(* C1, amended: a match does not end the candidate loop.  When the         *)
(* orchestrator is Done with a tile reason, every candidate of the page    *)
(* has been located, once and in discovery order, and the reason is        *)
(* paa_cwcot_hit if and only if some candidate classified as a match.      *)
C1_AllCandidatesExamined ==
  \A p \in Watched :
    (task[p].pc = "returned" /\ task[p].ret.selection_reason \in TileReasons) =>
      /\ LocatedIdx(p) = [k \in 1..Len(CandidatesOf(p)) |-> k]
      /\ (task[p].ret.selection_reason = "paa_cwcot_hit") <=> (Matches(p) # {})

\* Done with a match, and a candidate was located after the matching one
C1_Witness ==
  \E p \in Watched :
    /\ task[p].pc = "returned"
    /\ task[p].ret.selection_reason = "paa_cwcot_hit"
    /\ \E i \in Matches(p) : \E j \in (i + 1)..Len(Tr(p)) : Tr(p)[j].op = "locate"

\* the locate events of candidates that resolved to an address whose text matches
ResolvedMatching(p) ==
  { i \in 1..Len(Tr(p)) :
      /\ Tr(p)[i].op = "locate"
      /\ Tr(p)[i].url # NoUrl
      /\ Detection(Tr(p)[i].url).isCWCOT }

ResolvedBefore(p, i) ==
  { j \in 1..(i - 1) : Tr(p)[j].op = "locate" /\ Tr(p)[j].url # NoUrl }

(* C2: when a candidate resolved to an address whose text matches and the  *)
(* orchestrator returned, the outcome has reason paa_cwcot_hit and the     *)
(* label, address and classification of the first such candidate in        *)
(* discovery order.                                                        *)
C2_FirstMatchWins ==
  \A p \in Watched :
    (task[p].pc = "returned" /\ ResolvedMatching(p) # {}) =>
      LET e == Tr(p)[FirstIndex(ResolvedMatching(p))]
          r == task[p].ret
      IN /\ r.selection_reason = "paa_cwcot_hit"
         /\ r.url = e.url
         /\ r.label = CandidatesOf(p)[e.idx].label
         /\ r.isCWCOT
         /\ r.cwcot_hits = Detection(e.url).hits

\* the first match came after a candidate that resolved without matching
C2_Witness ==
  \E p \in Watched :
    /\ task[p].pc = "returned"
    /\ ResolvedMatching(p) # {}
    /\ ResolvedBefore(p, FirstIndex(ResolvedMatching(p))) # {}

\* the fallback stages run so far, in order
StagesRun(p) ==
  LET ev == SelectSeq(Tr(p), LAMBDA e : e.op \in StageOps)
  IN [k \in 1..Len(ev) |-> ev[k].op]

IsPrefix(a, b) == Len(a) <= Len(b) /\ \A k \in 1..Len(a) : a[k] = b[k]

NoTileResolved(p) ==
  \A i \in 1..Len(Tr(p)) : Tr(p)[i].op = "locate" => Tr(p)[i].url = NoUrl

HasDirectLink(p) == DirectScan(page[p].nodes) # NoUrl
HasHydrationLink(p) == paaHiddenOf(HydrationMatches(page[p].markup)) # NoUrl

FromFallback(p) ==
  task[p].pc = "returned" /\ task[p].ret.selection_reason \in FallbackReasons

(* C3, as stated: the fallback stages run in the order direct scan,        *)
(* hidden-link scan, interactive attempt, and on a page with both a direct *)
(* hyperlink and a hydration link the outcome carries the direct one.      *)
C3_DirectFirst ==
  \A p \in Watched :
    /\ IsPrefix(StagesRun(p), <<"direct", "hidden", "interactive">>)
    /\ (FromFallback(p) /\ HasDirectLink(p) /\ HasHydrationLink(p)) =>
         task[p].ret.url = toAbs(DirectScan(page[p].nodes))

\* what the hidden-link scan of the current attempt found
HiddenFound(p) ==
  LET m == { i \in 1..Len(Tr(p)) : Tr(p)[i].op = "hidden" }
  IN IF m = {} THEN NoUrl ELSE Tr(p)[FirstIndex(m)].url

(* C3, amended: the fallback stages run only when no candidate resolved,   *)
(* each at most once per attempt and in the order hidden-link scan, direct *)
(* scan, interactive attempt; a later stage runs only when the earlier     *)
(* ones found nothing.  So on a page with both a direct hyperlink and a    *)
(* hydration link, an outcome of the fallback chain carries the hydration  *)
(* link (hydration_paa) whenever the hidden-link scan read the markup.     *)
C3_HiddenFirst ==
  \A p \in Watched :
    /\ IsPrefix(StagesRun(p), <<"hidden", "direct", "interactive">>)
    /\ StagesRun(p) # <<>> => NoTileResolved(p)
    /\ (HiddenFound(p) # NoUrl) => Len(StagesRun(p)) = 1
    /\ (FromFallback(p) /\ HasDirectLink(p) /\ HasHydrationLink(p)
        /\ HiddenFound(p) # NoUrl) =>
         /\ task[p].ret.selection_reason = "hydration_paa"
         /\ task[p].ret.url = paaHiddenOf(HydrationMatches(page[p].markup))

C3_Witness ==
  \E p \in Watched :
    /\ FromFallback(p) /\ HasDirectLink(p) /\ HasHydrationLink(p)
    /\ task[p].ret.selection_reason = "hydration_paa"

Rows == 1..Len(out)

(* C4, as stated: a result that arrives after the budget timer and before  *)
(* the extension timer is recorded with reason paa_slow.                   *)
C4_LateIsTaggedSlow ==
  \A i \in Rows : path[i] = "late" => out[i].selection_reason = "paa_slow"

(* C4, amended: such a result is recorded with the orchestrator's own      *)
(* reason, unmodified; paa_slow is written only over an empty reason,      *)
(* which the orchestrator never returns.                                   *)
C4_LateKeepsReason ==
  \A i \in Rows :
    path[i] = "late" =>
      /\ out[i].selection_reason = task[out[i].url].ret.selection_reason
      /\ out[i].selection_reason \notin {"", "paa_slow"}

C4_Witness == \E i \in Rows : path[i] = "late"

(* C5: a result that arrives before the budget timer fires is recorded as  *)
(* it is, with its own reason: never the timeout default, never paa_slow.  *)
C5_InTimeExact ==
  \A i \in Rows :
    path[i] = "intime" =>
      LET r == task[out[i].url].ret
      IN /\ out[i].selection_reason = r.selection_reason
         /\ out[i].selection_reason \notin {"timeout_no_paa", "paa_slow", ""}
         /\ out[i].addendum_url = r.url
         /\ out[i].isCWCOT = r.isCWCOT
         /\ out[i].cwcot_hits = r.cwcot_hits
         /\ out[i].clicked_label = r.label
         /\ out[i].error = ""

C5_Witness == \E i \in Rows : path[i] = "intime" /\ out[i].isCWCOT

C6_DefaultStands ==
  \A i \in Rows :
    path[i] = "timeout" =>
      /\ out[i].selection_reason = "timeout_no_paa"
      /\ out[i].addendum_url = NoUrl
      /\ out[i].isCWCOT = FALSE
      /\ out[i].cwcot_hits = <<>>
      /\ out[i].error = ""

C6_RowsKept == Len(out') >= Len(out) /\ \A i \in Rows : out'[i] = out[i]

(* C6: when the extension timer fires first, the row is the timeout        *)
(* default; the abandoned call runs on, and no row already written, of     *)
(* this page or another, changes afterwards.                               *)
C6_TimeoutDefault == []C6_DefaultStands /\ [][C6_RowsKept]_allvars

\* the abandoned call ran on and returned a result; the default row is still there
C6_Witness ==
  \E i \in Rows :
    /\ path[i] = "timeout"
    /\ task[out[i].url].pc = "returned"
    /\ task[out[i].url].ret.url # NoUrl
    /\ out[i].selection_reason = "timeout_no_paa"

LastEvent(p) == Tr(p)[Len(Tr(p))]

(* C7: when text extraction fails for a candidate's address, only that     *)
(* candidate fails; the resolution does not throw because of it.           *)
C7_ExtractionFailureIsLocal ==
  \A p \in Watched :
    (Tr(p) # <<>> /\ LastEvent(p).op = "classifyFailed" /\ LastEvent(p).idx >= 1) =>
      task[p].pc # "threw"

(* C8: every tile the orchestrator sets out to locate has the label        *)
(* category TargetAddendum (labelType gives "paa").                        *)
C8_OnlyTargetTilesLocated ==
  \A p \in Pages :
    task[p].pc = "locate" => labelType(task[p].paaTiles[task[p].idx].label) = "paa"

\* the documents of page p whose label matches 'prohibited sales addendum'
ProhibitedDocs(p) ==
  { page[p].nodes[i].art.doc : i \in { j \in 1..Len(page[p].nodes) : BadRe(page[p].nodes[j].label) } }

(* C9: the address of an outcome is never the artifact of a document whose *)
(* label matches 'prohibited sales addendum'.                              *)
C9_NeverProhibitedArtifact ==
  \A p \in Watched :
    (task[p].pc = "returned" /\ task[p].ret.url # NoUrl) =>
      task[p].ret.url.doc \notin ProhibitedDocs(p)

IsArtifactAddress(u) == IsAbsolute(u) /\ isPdfUrl(u)

(* C10: every non-empty address the locator returns, every address passed  *)
(* to text extraction and every non-empty address of an outcome is an      *)
(* absolute URL that passes isPdfUrl.                                      *)
C10_AddressesAreArtifacts ==
  \A p \in Watched :
    /\ \A i \in 1..Len(Tr(p)) :
         (Tr(p)[i].op \in {"locate", "classify", "classifyFailed"} /\ Tr(p)[i].url # NoUrl) =>
           IsArtifactAddress(Tr(p)[i].url)
    /\ (task[p].pc = "returned" /\ task[p].ret.url # NoUrl) =>
         IsArtifactAddress(task[p].ret.url)

Audited == { p \in Pages : task[p].audit }

\* the errors of kind e that the current attempt answered for instead of throwing
SwallowedOf(p, e) == { x \in task[p].swallowed : x[2] = e }

(* C11: a context-loss error raised in any orchestrator state restarts the *)
(* attempt; it is never turned into an empty tile list, an empty signal or *)
(* an empty scan whose attempt goes on.                                    *)
C11_ContextLossRestarts ==
  \A p \in Audited : SwallowedOf(p, "ctx") = {}

(* C13: an error reporting 'Page is closed' always propagates out of the   *)
(* orchestrator; it is never turned into an empty tile list, an empty      *)
(* signal or a not-found outcome.                                          *)
C13_PageClosedPropagates ==
  \A p \in Audited :
    SwallowedOf(p, "pageclosed") # {} =>
      /\ task[p].pc = "threw"
      /\ task[p].err = "pageclosed"

C12_Bounded ==
  \A p \in Pages :
    /\ task[p].attempt < MaxAttempts
    /\ task[p].pc = "returned" => task[p].ret.selection_reason # ""
    /\ task[p].pc = "threw" => task[p].err # "none"
    /\ (task[p].pc = "threw" /\ IsContextLoss(task[p].err)) =>
         task[p].attempt = MaxAttempts - 1

\* a further attempt is begun only after a context loss; any other error ends the call
C12_RestartOnlyOnContextLoss ==
  \A p \in Pages :
    /\ task'[p].attempt # task[p].attempt =>
         /\ task'[p].attempt = task[p].attempt + 1
         /\ task'[p].pc = "discover"
         /\ IsContextLoss(task'[p].err)
    /\ Settled(task[p]) => task'[p] = task[p]

\* the steps an attempt has left at most, from where it stands
StepsLeft(s) ==
  LET n == Len(s.paaTiles)
      chain == 2 * Len(FallbackChain)
  IN CASE s.pc = "discover" -> 2 * MaxTiles + chain + 1
       [] s.pc = "locate" -> 2 * (n - s.idx) + 2 + chain
       [] s.pc = "classify" /\ s.via = "tile" -> 2 * (n - s.idx) + 1 + chain
       [] s.pc = "hydration" -> 4
       [] s.pc = "classify" /\ s.via = "hidden" -> 3
       [] s.pc = "legacy" -> 2
       [] s.pc = "classify" /\ s.via = "legacy" -> 1
       [] OTHER -> 0

\* a bound on the steps the call has left, over the attempts it may still make
Rank(s) ==
  IF ~Running(s) THEN 0
  ELSE (MaxAttempts - 1 - s.attempt) * (2 * MaxTiles + 2 * Len(FallbackChain) + 2)
       + StepsLeft(s)

\* every step of a call brings its end nearer
C12_Progress ==
  \A p \in Pages :
    task'[p] # task[p] => Rank(task'[p]) < Rank(task[p])

\* a running call stands at a step it can take: a candidate to locate, an address to classify
C12_CanGoOn ==
  \A p \in Watched :
    Running(task[p]) =>
      \/ task[p].pc = "discover" /\ Answers(p) # {}
      \/ task[p].pc = "locate" /\ task[p].idx \in 1..Len(task[p].paaTiles)
      \/ task[p].pc = "classify" /\ task[p].pending # NoUrl
      \/ task[p].pc \in {"hydration", "legacy"}

(* C12: the orchestrator runs at most 3 attempts and always ends, with an  *)
(* outcome that has a reason or with an error; a context loss on the third *)
(* attempt propagates, any other error propagates at once.                 *)
C12_EndsWithinThreeAttempts ==
  /\ []C12_Bounded
  /\ []C12_CanGoOn
  /\ [][C12_RestartOnlyOnContextLoss /\ C12_Progress]_allvars

\* the third attempt lost its context and the call threw
C12_Witness ==
  \E p \in Watched :
    /\ task[p].pc = "threw"
    /\ IsContextLoss(task[p].err)
    /\ task[p].attempt = MaxAttempts - 1

\* the calls of fn made so far: 1..sf.calls; call k ended with sf.script[k]
SafeCalls == 1..sf.calls

SafeSettled == sf.pc \in {"returned", "threw"}

(* C14: safe calls fn again after a failure only if the error matches the  *)
(* transient set and does not say 'Page is closed'; an error that says so  *)
(* is rethrown after that single call, transient signature or not.         *)
C14_RetryOnlyTransientNotClosed ==
  \A k \in SafeCalls :
    /\ k < sf.calls =>
         /\ MatchesErrRe(sf.script[k])
         /\ ~SaysPageClosed(sf.script[k])
    /\ (SaysPageClosed(sf.script[k]) /\ sf.pc # "call") =>
         /\ sf.calls = k
         /\ sf.pc = "threw"
         /\ sf.thrown = sf.script[k]

\* the first call failed with a transient error that says 'Page is closed'; tries were left
C14_Witness ==
  /\ sf.pc = "threw"
  /\ sf.calls = 1
  /\ sf.tries > 1
  /\ sf.script[1] = "conn+pageclosed"

(* C15: safe calls fn at most tries times, returns at the first success    *)
(* without a further call, rethrows an error it does not retry right after *)
(* the call that raised it and, when the tries are used up, the error of   *)
(* the last call; it never returns normally when every call failed.        *)
C15_CallsAndOutcome ==
  /\ sf.calls <= sf.tries
  /\ \A k \in SafeCalls :
       (sf.script[k] = "ok" \/ ~MatchesErrRe(sf.script[k])) => sf.calls = k
  /\ sf.pc = "returned" => (sf.calls >= 1 /\ sf.script[sf.calls] = "ok")
  /\ (sf.pc = "threw" /\ sf.calls >= 1) =>
       /\ sf.script[sf.calls] # "ok"
       /\ sf.thrown = sf.script[sf.calls]
  /\ (SafeSettled /\ \A k \in 1..sf.tries : sf.script[k] # "ok") => sf.pc = "threw"
  /\ (sf.pc = "call" /\ sf.calls >= 1) => sf.calls < sf.tries

\* every one of the default number of tries failed with a transient error
C15_Witness ==
  /\ sf.pc = "threw"
  /\ sf.tries = DefaultTries
  /\ sf.calls = DefaultTries
  /\ MatchesErrRe(sf.thrown)

(* C16: after failed call k that is retried safe waits wait*k; it waits    *)
(* neither after the last call nor after an error it does not retry.       *)
C16_LinearBackoff ==
  /\ sf.slept = [k \in 1..Len(sf.slept) |-> sf.wait * k]
  /\ (sf.pc \in {"sleep", "returned", "threw"} /\ sf.calls >= 1) =>
       Len(sf.slept) = sf.calls - 1
  /\ sf.pc = "call" => Len(sf.slept) = sf.calls
  /\ (sf.wait = DefaultWait /\ sf.tries = DefaultTries) =>
       IsPrefix(sf.slept, <<450, 900, 1350, 1800>>)

\* the defaults, every call failed: four waits, none after the fifth call
C16_Witness ==
  /\ sf.pc = "threw"
  /\ sf.calls = DefaultTries
  /\ sf.slept = <<450, 900, 1350, 1800>>

\* the locate events of candidates that resolved to an address
Resolved(p) == { i \in 1..Len(Tr(p)) : Tr(p)[i].op = "locate" /\ Tr(p)[i].url # NoUrl }

(* C17: when some candidate resolved and no resolved candidate matches,    *)
(* the outcome has reason paa_no_cwcot and the label, address and          *)
(* classification of the first resolved candidate in discovery order, and  *)
(* no stage of the fallback chain was run.                                 *)
C17_FirstResolvedWhenNoMatch ==
  \A p \in Watched :
    (task[p].pc = "returned" /\ Resolved(p) # {} /\ ResolvedMatching(p) = {}) =>
      LET e == Tr(p)[FirstIndex(Resolved(p))]
          r == task[p].ret
      IN /\ r.selection_reason = "paa_no_cwcot"
         /\ r.url = e.url
         /\ r.label = CandidatesOf(p)[e.idx].label
         /\ ~r.isCWCOT
         /\ r.cwcot_hits = Detection(e.url).hits
         /\ StagesRun(p) = <<>>

\* two candidates resolved to different addresses, neither matched
C17_Witness ==
  \E p \in Watched :
    /\ task[p].pc = "returned"
    /\ ResolvedMatching(p) = {}
    /\ \E i, j \in Resolved(p) : Tr(p)[i].url # Tr(p)[j].url

\* no operation of the call failed
NoFault(p) == faults = MaxAttempts /\ task[p].attempt = 0

(* C18: on a page with no document tile and no embedded hyperlink matching *)
(* the target pattern, the outcome is paa_not_found with an empty address, *)
(* isCWCOT false and no matched rule, whatever artifacts of other          *)
(* documents the markup mentions.                                          *)
C18_EmptyPageNotFound ==
  \A p \in Watched :
    (task[p].pc = "returned" /\ NoFault(p)
     /\ page[p].nodes = <<>> /\ ~HasHydrationLink(p)) =>
      /\ task[p].ret.selection_reason = "paa_not_found"
      /\ task[p].ret.url = NoUrl
      /\ ~task[p].ret.isCWCOT
      /\ task[p].ret.cwcot_hits = <<>>

\* the events of the trace that are effects of locating candidate idx
EffectOps == {"removeListeners", "resetHits", "listen", "cdpSession", "popupWait", "click", "sleep"}

EffectsFor(p, idx) ==
  { i \in 1..Len(Tr(p)) : Tr(p)[i].op \in EffectOps /\ Tr(p)[i].idx = idx }

HrefIsArtifact(t) == t.href # NoUrl /\ isPdfUrl(t.href)

(* C19: when the tile's href passes the artifact check, locate returns its *)
(* absolute form and does nothing else: no listener armed or removed, no   *)
(* hit list reset, no network session, no control activated, no wait.      *)
C19_HrefShortcutIsPure ==
  \A p \in Watched : \A i \in 1..Len(Tr(p)) :
    LET e == Tr(p)[i]
    IN (e.op \in {"locate", "locateFailed"} /\ HrefIsArtifact(CandidatesOf(p)[e.idx])) =>
         /\ e.op = "locate"
         /\ e.url = toAbs(CandidatesOf(p)[e.idx].href)
         /\ IsAbsolute(e.url)
         /\ EffectsFor(p, e.idx) = {}

\* a tile with a relative artifact href was located, after a tile that had to be activated
C19_Witness ==
  \E p \in Watched : \E i \in 1..Len(Tr(p)) :
    /\ Tr(p)[i].op = "locate"
    /\ HrefIsArtifact(CandidatesOf(p)[Tr(p)[i].idx])
    /\ CandidatesOf(p)[Tr(p)[i].idx].href.form # "abs"
    /\ \E j \in 1..(i - 1) : Tr(p)[j].op = "click"

\* the detail URLs the loop is through with: each has its row, in input order
C20_OneRowPerUrl ==
  /\ Len(out) = cur - 1
  /\ Len(path) = Len(out)
  /\ \A i \in Rows : out[i].url = i
  /\ mainpc = "write" => Len(out) = NumUrls

\* a step leaves the rows as they are or appends exactly one
C20_AppendOnly ==
  /\ Len(out') \in {Len(out), Len(out) + 1}
  /\ SubSeq(out', 1, Len(out)) = out

(* C20: the main loop appends exactly one record for each detail URL it    *)
(* processes, in input order, whether the resolution succeeded, timed out  *)
(* or threw; a recorded row is never changed afterwards.                   *)
C20_ExactlyOneRecord == []C20_OneRowPerUrl /\ [][C20_AppendOnly]_allvars

\* the loop is through: one page threw, the other timed out, two rows
C20_Witness ==
  /\ mainpc = "write"
  /\ Len(out) = NumUrls
  /\ \E i, j \in Rows : path[i] = "error" /\ path[j] = "timeout"


\* ------------------------------------------------------- tile identities
PassTiles == dt.tiles

KeyOf(tile) == LowerSeq(tile.label)

\* the earlier tiles of the pass with the case-folded label of tile i
EarlierAlike(tiles, i) == { j \in 1..(i - 1) : KeyOf(tiles[j]) = KeyOf(tiles[i]) }

C21_NodeOnce ==
  \A i, j \in 1..Len(PassTiles) : PassTiles[i].node = PassTiles[j].node => i = j

C21_OrdinalCounts ==
  \A i \in 1..Len(PassTiles) :
    PassTiles[i].ordinal = Cardinality(EarlierAlike(PassTiles, i))

C21_IdentityUnique ==
  \A i, j \in 1..Len(PassTiles) :
    (KeyOf(PassTiles[i]) = KeyOf(PassTiles[j])
       /\ PassTiles[i].ordinal = PassTiles[j].ordinal) => i = j

\* two visited elements with one text, and no third: ordinals 0 and 1
C21_SameTextTwoTiles ==
  \A m, n \in dt.seenNodes :
    (/\ m # n
     /\ dt.dom[m].label # <<>>
     /\ dt.dom[m].label = dt.dom[n].label
     /\ \A o \in dt.seenNodes :
          LowerSeq(dt.dom[o].label) = LowerSeq(dt.dom[m].label) => o \in {m, n})
    => { t.ordinal : t \in { PassTiles[i] : i \in { k \in 1..Len(PassTiles) :
                                                     PassTiles[k].node \in {m, n} } } }
         = {0, 1}

(* C21: in one pass of listDocumentTiles every element yields at most one  *)
(* tile, the ordinal of a tile is the number of earlier tiles with the     *)
(* same case-folded label, so (case-folded label, ordinal) identifies a    *)
(* tile, and two elements showing the same text get ordinals 0 and 1.      *)
C21_TileIdentities ==
  /\ C21_NodeOnce
  /\ C21_OrdinalCounts
  /\ C21_IdentityUnique
  /\ C21_SameTextTwoTiles

\* an element was handed to pushTile twice, and three tiles share one key
C21_Witness ==
  /\ dt.pc = "pass"
  /\ dt.pos > Len(dt.visits)
  /\ \E i, j \in 1..Len(dt.visits) : i # j /\ dt.visits[i] = dt.visits[j]
  /\ \E i \in 1..Len(PassTiles) :
       /\ PassTiles[i].ordinal = 1
       /\ \E j \in 1..(i - 1) : PassTiles[j].label # PassTiles[i].label
                                /\ KeyOf(PassTiles[j]) = KeyOf(PassTiles[i])

\* ------------------------------------------------------ discovery, repeated
BothPassesRan == Len(dt.returned) = 2 /\ ~dt.failed[1] /\ ~dt.failed[2]

(* C22: two passes of listDocumentTiles over the same page return the same *)
(* sequence of tiles, and a pass starts with no element seen, no label     *)
(* counted and no tile collected.                                          *)
C22_PassesAgree ==
  /\ BothPassesRan => dt.returned[1] = dt.returned[2]
  /\ (dt.pc = "pass" /\ dt.pos = 1) =>
       (dt.seenNodes = {} /\ dt.labelCounts = <<>> /\ dt.tiles = <<>>)

\* both passes ran and returned a tile whose ordinal is not 0
C22_Witness ==
  /\ BothPassesRan
  /\ \E i \in 1..Len(dt.returned[2]) : dt.returned[2][i].ordinal = 1

\* ------------------------------------------------------- label categories
Categories == { "prohibited", "asis", "paa", "generic", "psa", "other" }

Labelled == cl.pc = "done" /\ cl.fn = "labelType"

\* the words occur in this order in any case, whitespace only between them
ContainsWords(label, w1, w2, w3) ==
  \E i, j, k \in 1..Len(label) :
    /\ i < j /\ j < k
    /\ Lower(label[i]) = w1 /\ Lower(label[j]) = w2 /\ Lower(label[k]) = w3
    /\ \A m \in (i + 1)..(k - 1) : m # j => label[m] = Ws

SaysProhibited(label) == ContainsWords(label, "prohibited", "sales", "addendum")

(* C23: labelType returns a category for every label, an empty or missing  *)
(* one included, and the category is 'prohibited' whenever the label       *)
(* contains "prohibited sales addendum" in any case with any whitespace    *)
(* run between the words, whatever else the label contains.                *)
C23_ProhibitedWins ==
  Labelled =>
    /\ cl.type \in Categories
    /\ cl.label \in {<<>>, NoLabel} => cl.type = "other"
    /\ SaysProhibited(cl.label) => cl.type = "prohibited"

\* a prohibited label with a whitespace run, an as-is and a target phrase
C23_Witness ==
  /\ Labelled
  /\ SaysProhibited(cl.label)
  /\ \E i \in 1..(Len(cl.label) - 1) : cl.label[i] = Ws /\ cl.label[i + 1] = Ws
  /\ ContainsWords(cl.label, "purchase", "agreement", "addendum")
  /\ \E i \in 1..(Len(cl.label) - 1) : cl.label[i] = "As" /\ cl.label[i + 1] = "Is"
  /\ cl.type = "prohibited"

\* --------------------------------------------------------- text detection
Detected == cl.pc = "done" /\ cl.fn = "detect"

NormalText == LowerSeq(normText(cl.text))

FilenameHint == \E i \in 1..Len(cl.filename) : Lower(cl.filename[i]) = "cwcot"

\* the recorded entries without the synthetic one
RuleEntries ==
  IF FilenameHint THEN SubSeq(cl.det.hits, 1, Len(cl.det.hits) - 1) ELSE cl.det.hits

RuleIndex(k) == CHOOSE i \in 1..Len(RuleKeys) : RuleKeys[i] = k

(* C24: detectCWCOTInText records the key of every rule that matches the   *)
(* normalized text, each once and in rule order, then 'filename:CWCOT'     *)
(* when the filename hint contains the keyword; isCWCOT is true exactly    *)
(* when something was recorded; a text with the word CWCOT and the words   *)
(* second chance has at least two entries.                                 *)
C24_UnionInRuleOrder ==
  Detected =>
    /\ FilenameHint <=>
         (cl.det.hits # <<>> /\ cl.det.hits[Len(cl.det.hits)] = "filename:CWCOT")
    /\ \A j \in 1..Len(RuleEntries) : RuleEntries[j] \in { RuleKeys[i] : i \in 1..Len(RuleKeys) }
    /\ \A i \in 1..Len(RuleKeys) :
         RuleMatches(RuleKeys[i], NormalText)
           <=> \E j \in 1..Len(RuleEntries) : RuleEntries[j] = RuleKeys[i]
    /\ \A j, k \in 1..Len(RuleEntries) :
         j < k => RuleIndex(RuleEntries[j]) < RuleIndex(RuleEntries[k])
    /\ cl.det.isCWCOT <=> cl.det.hits # <<>>
    /\ (/\ \E i \in 1..Len(cl.text) : cl.text[i] = "CWCOT"
        /\ \E i \in 1..(Len(cl.text) - 1) : cl.text[i] = "Second" /\ cl.text[i + 1] = "Chance")
       => Len(cl.det.hits) >= 2

\* three rules matched and the filename hint: four entries
C24_Witness ==
  /\ Detected
  /\ Len(cl.det.hits) = 4
  /\ cl.det.hits[1] = "CWCOT"
  /\ cl.det.hits[2] = "Second Chance"
  /\ cl.det.hits[4] = "filename:CWCOT"

\* ------------------------------------------------------------ revision tag
\* where the numbers start when "rev" is at token i: after "rev" or "rev."
NumbersAfterRev(t, i) ==
  IF t[i] # "rev" THEN {}
  ELSE {i + 1} \cup (IF i + 1 <= Len(t) /\ t[i + 1] = "." THEN {i + 2} ELSE {})

\* "rev" and then <number>.<number>
TwoComponents(t) ==
  \E i \in 1..Len(t) : \E n \in NumbersAfterRev(t, i) :
    /\ n + 2 <= Len(t)
    /\ NumLen(t[n]) >= 1 /\ t[n + 1] = "." /\ NumLen(t[n + 2]) >= 1

\* "rev" and then the three numbers of tag, the last one possibly longer
ThreeComponents(t, tag) ==
  \E i \in 1..Len(t) : \E n \in NumbersAfterRev(t, i) :
    /\ n + 4 <= Len(t)
    /\ t[n] = tag[1] /\ t[n + 1] = "." /\ t[n + 2] = tag[3] /\ t[n + 3] = "."
    /\ FirstDigits(t[n + 4], 4) = tag[5]

DatedTags ==
  { <<a, ".", b, ".", c>> : a \in {"3", "14", "24"}, b \in {"3", "14", "24"},
                            c \in {"14", "24", "123", "2024"} }

(* C25 as stated: "rev" followed by two dotted numbers yields a tag, the   *)
(* third number being optional.                                            *)
C25_OptionalThird ==
  (Detected /\ TwoComponents(NormalText)) => cl.det.cwcot_rev # <<>>

(* C25, as the code has it: the tag is empty unless "rev", an optional     *)
(* "." and three dotted numbers of 1-2, 1-2 and 2-4 digits occur; then it  *)
(* is those three numbers. "Rev. 3.14.24" gives 3.14.24, "Rev. 3.14" the   *)
(* empty tag.                                                              *)
C25_ThreeComponentsOnly ==
  Detected =>
    /\ cl.det.cwcot_rev # <<>> =>
         (cl.det.cwcot_rev \in DatedTags /\ ThreeComponents(NormalText, cl.det.cwcot_rev))
    /\ cl.det.cwcot_rev = <<>> =>
         \A tag \in DatedTags : ~ThreeComponents(NormalText, tag)
    /\ NormalText = <<"rev", ".", "3", ".", "14", ".", "24">> =>
         cl.det.cwcot_rev = <<"3", ".", "14", ".", "24">>
    /\ NormalText = <<"rev", ".", "3", ".", "14">> => cl.det.cwcot_rev = <<>>

\* a text with a two-number revision and no three-number one: empty tag
C25_Witness ==
  /\ Detected
  /\ TwoComponents(NormalText)
  /\ cl.det.cwcot_rev = <<>>
  /\ cl.det.isCWCOT

\* ------------------------------------------------------ ingest, duplicates
\* record i repeats the url of an earlier record of the report
IsDuplicate(records, i) == \E j \in 1..(i - 1) : records[j].url = records[i].url

\* the first record of the report with this url
FirstWith(records, url) ==
  records[CHOOSE j \in 1..Len(records) :
            records[j].url = url /\ \A k \in 1..(j - 1) : records[k].url # url]

\* the step of runUpsert that handles record i
Handles(i) ==
  /\ ing.pc = "upsert" /\ ing.i = i /\ i <= Len(ing.records)
  /\ ing'.pc = "upsert" /\ ing'.i = i + 1

C26_SkipStep ==
  \A i \in 1..MaxRecords :
    (Handles(i) /\ (ing.records[i].url = "" \/ IsDuplicate(ing.records, i)))
      => /\ Tables(ing') = Tables(ing)
         /\ ing'.counts = ing.counts
         /\ ing'.writes = ing.writes
         /\ ing'.seenUrls = ing.seenUrls

C26_FirstApplied ==
  \A i \in 1..MaxRecords :
    (Handles(i) /\ ing.records[i].url # "" /\ ~IsDuplicate(ing.records, i))
      => /\ ing'.writes = ing.writes + 1
         /\ Len(ing'.events) = Len(ing.events) + 1

C26_FirstStands ==
  ing.pc = "upsert" =>
    /\ "" \notin ing.seenUrls
    /\ \A url \in ing.seenUrls :
         /\ SelectByUrl(ing.props, url) # 0
         /\ ing.props[SelectByUrl(ing.props, url)].val = FirstWith(ing.records, url).val

(* C26: in one ingest run a url that occurs several times in the report is *)
(* applied once, from its first record: the step for a later record with   *)
(* that url, and the step for a record with an empty url, writes no        *)
(* property, no change row and no event and moves no counter.              *)
C26_DuplicatesSkipped ==
  /\ [][C26_SkipStep /\ C26_FirstApplied]_allvars
  /\ []C26_FirstStands

\* a repeated url with other content was skipped in a second run
C26_Witness ==
  /\ ing.pc = "upsert"
  /\ ing.run = 2
  /\ ing.i = 4
  /\ ing.records[1].url = "u1"
  /\ ing.records[2].url = ""
  /\ ing.records[3].url = "u1"
  /\ ing.records[3].val # ing.records[1].val
  /\ ing.writes = 2
  /\ ing.counts.updated = 1

\* ------------------------------------------------------- locate, in steps
\* the control of the tile is about to be activated
Activating == lc.pc = "activate"

(* C27: when locate activates the control of a tile, the popup wait, the   *)
(* response observer, the CDP subscription and the in-page capture patch   *)
(* are all armed.                                                          *)
C27_AllFourArmed ==
  Activating => (lc.popup = 1 /\ lc.response = 1 /\ lc.cdp = 1 /\ lc.capture)

\* the sources in the order of the claim, and what each holds at its reading
SourceOrder == <<"now", "popup", "hits", "cdp", "perf", "open", "anchor", "blob">>

HeldWhenRead(k) ==
  IF SourceOrder[k] = "perf" /\ lc.perfAt \notin 1..6 THEN NoUrl
  ELSE Held(lc.sig, SourceOrder[k])

ArtifactSources == { k \in 1..Len(SourceOrder) : isPdfUrl(HeldWhenRead(k)) }

Sniffed == lc.pc = "done" /\ lc.via # "href"

(* C28: after activation locate returns the value of the first source, in  *)
(* the order now, popup, first response hit, first CDP hit, resource       *)
(* timing, window.open, anchor click, object reference, that holds an      *)
(* artifact address, and the empty address when none does; the resource    *)
(* timing entries are inspected at most 6 times.                           *)
C28_PriorityOrder ==
  /\ lc.polls <= 6
  /\ Sniffed =>
       IF ArtifactSources = {}
       THEN lc.ret = NoUrl /\ lc.via = "none" /\ lc.polls = 6
       ELSE LET k == CHOOSE x \in ArtifactSources : \A y \in ArtifactSources : x <= y
            IN /\ lc.via = SourceOrder[k]
               /\ lc.ret = HeldWhenRead(k)
               /\ k <= 4 => lc.polls = 0
               /\ k = 5 => lc.polls = lc.perfAt
               /\ k >= 6 => lc.polls = 6

\* the capture of window.open is returned after six inspections found nothing
C28_Witness ==
  /\ Sniffed
  /\ lc.via = "open"
  /\ lc.polls = 6
  /\ lc.perfAt = 7
  /\ lc.sig.perf # <<>>

(* C29: when the in-page pass returns without having found a control, the  *)
(* snapshot of clickable elements is used to activate the tile.            *)
C29_FallbackWhenNoControl ==
  (/\ lc.pc = "sniff"
   /\ lc.passRan
   /\ ~ControlFound(lc.dom, lc.tile)
   /\ lc.dom.snapshot >= 1) => lc.external

(* C30: one locate delivers exactly one click event to the control it      *)
(* matched, and never more than one.                                       *)
C30_OneClickPerLocate ==
  /\ lc.clicks <= 1
  /\ (lc.pc = "sniff" /\ lc.passRan /\ ControlFound(lc.dom, lc.tile)) => lc.clicks = 1

\* ------------------------------------------- listeners across locate calls
(* C31: at the moment a locate call activates its tile, the page carries   *)
(* at most one response observer, at most one CDP network subscription and *)
(* at most one pending popup wait, none left over from an earlier call.    *)
C31_OnlyOwnListeners ==
  Activating => (lc.response <= 1 /\ lc.cdp <= 1 /\ lc.popup <= 1)

\* --------------------------------------------- later entries of a hit list
\* a hit list of the call holds an address that passes the artifact check
ListHoldsArtifact(q) == \E k \in 1..Len(q) : isPdfUrl(q[k])

(* C36: when the response list or the CDP list recorded, after the         *)
(* activation, any address that passes the artifact check, locate returns  *)
(* a non-empty address, even if the first entry of the list fails it.      *)
C36_AnyRecordedHitReturned ==
  (Sniffed /\ (ListHoldsArtifact(lc.sig.hits) \/ ListHoldsArtifact(lc.sig.cdp)))
    => lc.ret # NoUrl

\* ---------------------------------------------------- the shared reader
(* C32: once an invocation of the extraction has met a dead session (the   *)
(* error says Target closed or Connection closed, or the reader reports    *)
(* closed), the extraction is not invoked again on that session.           *)
C32_NoRetryOnDeadSession ==
  \A c \in Callers : ~rd.callers[c].again

(* C35: a reader that getPdfReader has returned has loaded the blank page  *)
(* and carries both scripts of the extraction library.                     *)
C35_ReturnedReaderInitialised ==
  \A c \in Callers :
    rd.callers[c].pc = "extract" =>
      (rd.callers[c].reader # 0 /\ Initialised(rd.pages[rd.callers[c].reader]))

\* ------------------------------------------- one resolution at a time
\* the orchestrator calls under way, and those inside analyzeAddendumPdf
RunningTasks == { p \in Pages : Running(task[p]) }

Extracting == { p \in Pages : task[p].pc = "classify" }

(* C33: at any moment at most one orchestrator call is under way and at    *)
(* most one extraction is in flight on __pdfReader, also after the main    *)
(* loop gave up a page on timeout and went on to the next URL.             *)
C33_OneResolutionAtATime ==
  /\ Cardinality(RunningTasks) <= 1
  /\ Cardinality(Extracting) <= 1

\* ------------------------------------------------ early and late rejections
(* C34: when the orchestrator throws after the budget timer has fired, the *)
(* row of the page is the timeout default (reason timeout_no_paa, empty    *)
(* error field), the same row a timeout gives, and carries nothing of the  *)
(* error; when it throws before the timer, the row is an error row with    *)
(* the error in its error field and an empty reason.                       *)
C34_LateErrorIsDefault ==
  \A i \in Rows :
    /\ path[i] = "lateError" =>
         /\ task[out[i].url].pc = "threw"
         /\ out[i].selection_reason = "timeout_no_paa"
         /\ out[i].error = ""
         /\ out[i] = Row(out[i].url, defaultDetectResult)
    /\ path[i] = "error" =>
         /\ task[out[i].url].pc = "threw"
         /\ out[i].error = task[out[i].url].err
         /\ out[i].error # ""
         /\ out[i].selection_reason = ""

\* a call that threw after the budget timer, its row written
C34_Witness ==
  \E i \in Rows :
    /\ path[i] = "lateError"
    /\ task[out[i].url].err \in ErrKinds
    /\ out[i].selection_reason = "timeout_no_paa"

\* ------------------------------------------------ ingest, the active set
\* the urls of the rows that are active, and those the report names
ActiveUrls == { ing.props[k].url : k \in { j \in 1..Len(ing.props) : ing.props[j].status = "active" } }

ReportedUrls == { ing.records[n].url : n \in 1..Len(ing.records) } \ {""}

RunCompleted == ing.pc = "done"

Stored == { k \in 1..Len(ing.props) : ing.props[k].status # "deleted" }

\* the runs that recorded a created event, or a change row, for property k
CreatedIn(k) ==
  { ing.events[e].run_id : e \in { x \in 1..Len(ing.events) :
      ing.events[x].property_id = k /\ ing.events[x].event_type = "created" } }

ChangedIn(k) ==
  { ing.changes[c].changed_at : c \in { x \in 1..Len(ing.changes) :
      ing.changes[x].property_id = k } }

C38_Columns ==
  \A k \in Stored :
    LET row == ing.props[k]
    IN /\ row.status \in {"active", "inactive"}
       /\ row.status = "active" <=> row.inactive_at = 0
       /\ CreatedIn(k) = {row.first_seen}
       /\ row.last_changed \in CreatedIn(k) \cup ChangedIn(k)
       /\ \A t \in CreatedIn(k) \cup ChangedIn(k) : t <= row.last_changed

(* a step that is not the rollback of a failed transaction moves           *)
(* last_changed of a row only together with a change row of this run       *)
C38_MovesWithChange ==
  \A k \in Stored :
    (/\ k \in 1..Len(ing'.props)
     /\ ing'.props[k].status # "deleted"
     /\ ing'.pc # "failed"
     /\ ing'.props[k].last_changed # ing.props[k].last_changed)
      => /\ ing'.props[k].last_changed = ing.run
         /\ \E c \in (Len(ing.changes) + 1)..Len(ing'.changes) :
              /\ ing'.changes[c].property_id = k
              /\ ing'.changes[c].changed_at = ing.run

FromFailure(rec) ==
  Content(rec.val).error # "" \/ Content(rec.val).selection_reason = "timeout_no_paa"

(* C39: the step of runUpsert for a record that came from a scrape error   *)
(* or a detection timeout leaves is_cwcot and addendum_url of the stored   *)
(* property as an earlier resolution wrote them.                           *)
C39_FailureKeepsDetection ==
  [][\A i \in 1..MaxRecords :
       (Handles(i) /\ FromFailure(ing.records[i])) =>
         \A k \in 1..Len(ing.props) :
           /\ ing'.props[k].is_cwcot = ing.props[k].is_cwcot
           /\ ing'.props[k].addendum_url = ing.props[k].addendum_url]_allvars

\* ---------------------------------------------------------- geocode cache
\* the step in which call c gets its answer from the network
Answered(c) == geo.calls[c].pc = "remote" /\ geo'.calls[c].pc = "returned"

\* the step in which call c is made and reads the cache
Entered(c) == geo'.calls[c].seq = geo.n + 1

C40_Calls ==
  \A c \in GeoCallers :
    LET call == geo.calls[c]
    IN /\ call.remote =>
            (call.allow /\ geo.token /\ call.addr # "" /\ call.hit = NoCoords)
       /\ (call.pc = "returned" /\ ~call.remote) => call.ret = call.hit

C40_Steps ==
  \A c \in GeoCallers :
    /\ Entered(c) =>
         /\ geo'.cache = geo.cache
         /\ geo'.calls[c].hit = getCachedGeocode(geo.cache, geo'.calls[c].addr)
         /\ geo'.calls[c].hit # NoCoords =>
              (geo'.calls[c].ret = geo'.calls[c].hit /\ geo'.lookups = geo.lookups)
    /\ Answered(c) =>
         IF geo'.calls[c].ret # NoCoords
         THEN geo'.cache = [geo.cache EXCEPT ![geo.calls[c].addr] = geo'.calls[c].ret]
         ELSE geo'.cache = geo.cache

(* C40: resolveCoordinates goes to the network only when allowNetwork is   *)
(* true, a token is configured and the cache has no entry for the address; *)
(* the coordinates of a successful lookup are stored under the address, a  *)
(* call that finds an entry returns it without a lookup, and a failed      *)
(* lookup stores nothing.                                                  *)
C40_RemoteOnlyOnMiss == []C40_Calls /\ [][C40_Steps]_allvars

(* a call without network access was answered from the entry that the      *)
(* lookup of an earlier call stored                                        *)
C40_Witness ==
  \E c, d \in GeoCallers :
    /\ c # d
    /\ geo.calls[c].pc = "returned" /\ geo.calls[c].remote
    /\ geo.calls[c].ret # NoCoords
    /\ geo.calls[d].pc = "returned" /\ ~geo.calls[d].remote /\ ~geo.calls[d].allow
    /\ geo.calls[d].addr = geo.calls[c].addr
    /\ geo.calls[d].ret = geo.calls[c].ret
    /\ geo.lookups = 1

====
